---- MODULE Spec2Model ----
(***************************************************************************)
(* Verification model of the MOHRE document intake pipeline.               *)
(*                                                                         *)
(* Components modelled, each with its own specification over the shared    *)
(* variables (the variables of the components that are not running stay    *)
(* at their idle values):                                                  *)
(*   SpecOcr      run_enhanced_ocr            (yolo_crop_ocr_pipeline.py)   *)
(*   SpecCrop     run_yolo_crop               (yolo_crop_ocr_pipeline.py)   *)
(*   SpecClassify classify_images             (main_pipeline.py)            *)
(*   SpecAttest   validate_attestation_numbers (attestation_utils.py)       *)
(*   SpecRotate   rotate_image_if_needed_google_ai (google_ai_rotation.py)  *)
(*   SpecSimpleOrientation detect_text_orientation_simple                  *)
(*                                  (simple_text_orientation_detector.py)  *)
(*   SpecMainClassify  the classification loop in main (main_pipeline.py)  *)
(*   SpecPipeline      main's bundle loop          (main_pipeline.py)      *)
(*   SpecGui           run_gui, ManualProcessingWindow (gui_app.py)        *)
(*   SpecStructuring   gemini_structuring          (main_pipeline.py)      *)
(*   SpecSave          save_results                (main_pipeline.py)      *)
(*   SpecVision        run_google_vision_ocr  (yolo_crop_ocr_pipeline.py)   *)
(*   SpecService       detect_service_from_email   (service_detector.py)   *)
(*   SpecMonitor       continuous_pipeline, with fairness    (src/main.py)  *)
(*   SpecExtract       get_document_type, extractors                       *)
(*                                            (document_ai_processor.py)   *)
(*                                                                         *)
(* Texts are sequences of tokens (words); numbers are sequences of         *)
(* one-character strings.  Confidences are counted in tenths (9 = 0.9).    *)
(***************************************************************************)
EXTENDS Integers, Sequences, FiniteSets, TLC

\* ------------------------------------------------------------------ bounds
MaxTextLen == 2      \* longest text returned by the primary engine, in tokens
MaxVisionLen == 1    \* longest text returned by the secondary engine, in tokens
MaxBoxes == 3        \* most boxes the detector returns for one image
MaxZeros == 1        \* most leading zeros of a candidate number
MaxTail == 13        \* most digits after the head of a candidate number
MaxOcrTail == 4      \* most digits after the head of a number in the OCR text
MaxPages == 3        \* most page images in one bundle
MaxOcrLen == 3       \* longest text recognized at one rotation, in characters
MaxBundles == 2      \* most subject folders in one run of main
MaxBundlePages == 2  \* most page images in one subject folder
MaxClicks == 3       \* most threads started from the GUI
MaxFiles == 2        \* most files listed in the manual window
MaxStructPages == 3  \* most pages handed to gemini_structuring
MaxSavedPages == 3   \* most pages handed to save_results
MaxNameLen == 3      \* most characters of a "Full Name" string
MaxDocLen == 3       \* most tokens of a text handed to DocumentAIProcessor
MaxEmailLen == 2     \* most tokens of an email text
MaxServices == 2     \* most services in the list handed to the detector
MaxCycles == 3       \* most cycles of continuous_pipeline
MaxWait == 2         \* iterations of the waiting loop (check_interval)

\* --------------------------------------------------------------- variables
VARIABLES
    \* run_enhanced_ocr
    DOCUMENT_AI_AVAILABLE,  \* module flag set by the guarded import
    docai_enabled,          \* DOCUMENT_AI_PROCESSOR.enabled
    docai_behaviour,        \* what process_document does when called
    vision_behaviour,       \* what run_google_vision_ocr would do when called
    vision_calls,           \* number of calls made to run_google_vision_ocr
    ocr_result,             \* the dict returned by run_enhanced_ocr
    ocr_raised,             \* TRUE when run_enhanced_ocr raised to its caller
    ocr_pc,                 \* "idle" | "start" | "done"
    \* run_yolo_crop
    image_readable,         \* cv2.imread(image_path) returned an image
    yolo_boxes,             \* results.boxes, the detections in detector order
    detector_calls,         \* number of calls of YOLO_MODEL
    crop_result,            \* what run_yolo_crop returned or raised
    scratch_files,          \* files written under output_dir
    crop_pc,                \* "idle" | "start" | "done"
    \* validate_attestation_numbers
    att_ocr_text,           \* argument ocr_text
    extracted_numbers,      \* argument extracted_numbers (a dict)
    validated,              \* the dict returned
    att_pc,                 \* "idle" | "start" | "done"
    \* classify_images
    image_paths,            \* argument image_paths, in arrival order
    classified_images,      \* the list of page dicts being built
    resnet_labelled,        \* history: classified_images as the first loop left it
    rotate_calls,           \* paths handed to rotate_if_needed
    cls_index,              \* position of the running loop
    cls_pc,                 \* "idle" | "classify" | "rotate" | "done"
    \* rotate_image_if_needed_google_ai
    rot_image_path,         \* argument image_path
    rot_doc_class,          \* argument doc_class
    gemini_behaviour,       \* what encoding the image and the Gemini call do
    image_io,               \* what cv2.imread / cv2.imwrite do in rotate_image
    gemini_calls,           \* number of calls of model.generate_content
    rot_files,              \* files written by rotate_image
    rot_result,             \* the path returned, or the exception raised
    rot_pc,                 \* "idle" | "start" | "done"
    \* detect_text_orientation_simple
    sto_readable,           \* cv2.imread(image_path) returned an image
    sto_text_len,           \* length of the text recognized at each rotation
    sto_ocr_fails,          \* rotations at which run_google_vision_ocr raises
    sto_ocr_calls,          \* number of calls of run_google_vision_ocr
    sto_result,             \* the dict returned
    sto_pc,                 \* "idle" | "start" | "done"
    \* main: the classification loop written out in the bundle loop
    mic_image_paths,        \* all_image_paths, in arrival order
    mic_classified,         \* the list classified_images being built
    mic_failed,             \* history: pages on which the classifier raised
    mic_raised,             \* TRUE when the loop raised out of main
    mic_index,              \* position of the loop
    mic_pc,                 \* "idle" | "classify" | "done"
    \* main: the bundle loop over the stage functions
    pipe_nfolders,          \* number of subject folders found
    pipe_folder,            \* the folder being processed, or the next one
    pipe_status,            \* per folder: how main left it
    pipe_pc,                \* the stage main is in
    pipe_index,             \* position of the running page loop
    pipe_npages,            \* len(image_paths) of the current bundle
    pipe_classified,        \* classified_images of the current bundle
    pipe_dropped,           \* history: pages whose classification raised
    pipe_reconciled,        \* history: pairing passes run on the bundle
    pipe_no_boxes,          \* history: pages for which the detector found nothing
    pipe_processed,         \* processed_images of the current bundle
    pipe_structured,        \* gemini_structuring has been called
    pipe_saved,             \* pages handed to save_outputs with success
    pipe_save_failed,       \* save_outputs raised in the current bundle
    \* gui_app: run_gui and ManualProcessingWindow
    gui_window_open,        \* a ManualProcessingWindow exists
    gui_file_paths,         \* len(self.file_paths)
    gui_start_enabled,      \* state of the Start Processing button
    gui_workers,            \* the threads started so far, in order
    gui_pc,                 \* "idle" | "mainloop"
    \* gemini_structuring
    gst_processed,          \* argument processed_images
    gst_result,             \* the arguments handed to structure_with_gemini
    gst_pc,                 \* "idle" | "start" | "done"
    \* save_results
    sav_processed,          \* argument processed_images
    sav_full_name,          \* the "Full Name" entry of final_structured
    sav_dir,                \* subject_output_dir: file name -> page written last
    sav_overwritten,        \* history: files written over an earlier page's
    sav_index,              \* position of the first loop
    sav_pc,                 \* "idle" | "master" | "save" | "compress" | "done"
    \* DocumentAIProcessor: document type and field extraction
    doc_text,               \* ocr_text, as tokens
    doc_call,               \* the method that was called
    doc_document_type,      \* value returned by get_document_type
    doc_fields,             \* dict returned by an extractor
    doc_pc,
    \* detect_service_from_email
    svc_email,              \* email_text, as tokens
    svc_services,           \* the argument `services`
    svc_fetched,            \* fetch_mohre_services() or DEFAULT_SERVICES
    svc_api_key,            \* an API key is configured
    svc_gemini,             \* what model.generate_content does
    svc_result,
    svc_pc,
    \* run_google_vision_ocr
    vis_passport_path,      \* "passport" in image_path.lower()
    vis_readable,           \* cv2.imread(image_path) returns an image
    vis_text_len,           \* len of the text Vision recognizes, per image
    vis_files,              \* the files that exist
    vis_preprocessed_path,  \* value returned by preprocess_image_for_ocr
    vis_passes,             \* the files handed to _perform_ocr, in order
    vis_result,             \* ocr_result
    vis_pc,
    \* continuous_pipeline (src/main.py)
    mon_running,            \* the global flag `running`
    mon_signalled,          \* signal_handler has run
    mon_cycle_count,        \* cycle_count
    mon_outcomes,           \* how each finished cycle ended
    mon_wait_left,          \* iterations left of the waiting loop
    mon_pc

ocrVars == <<DOCUMENT_AI_AVAILABLE, docai_enabled, docai_behaviour,
             vision_behaviour, vision_calls, ocr_result, ocr_raised, ocr_pc>>

cropVars == <<image_readable, yolo_boxes, detector_calls, crop_result,
              scratch_files, crop_pc>>

attVars == <<att_ocr_text, extracted_numbers, validated, att_pc>>

clsVars == <<image_paths, classified_images, resnet_labelled, rotate_calls,
             cls_index, cls_pc>>

rotVars == <<rot_image_path, rot_doc_class, gemini_behaviour, image_io,
             gemini_calls, rot_files, rot_result, rot_pc>>

stoVars == <<sto_readable, sto_text_len, sto_ocr_fails, sto_ocr_calls,
    sto_result, sto_pc>>

micVars == <<mic_image_paths, mic_classified, mic_failed, mic_raised,
    mic_index, mic_pc>>

pipeVars == <<pipe_nfolders, pipe_folder, pipe_status, pipe_pc, pipe_index,
    pipe_npages, pipe_classified, pipe_dropped, pipe_reconciled,
    pipe_no_boxes, pipe_processed, pipe_structured, pipe_saved,
    pipe_save_failed>>

guiVars == <<gui_window_open, gui_file_paths, gui_start_enabled,
    gui_workers, gui_pc>>

gstVars == <<gst_processed, gst_result, gst_pc>>

savVars == <<sav_processed, sav_full_name, sav_dir, sav_overwritten,
    sav_index, sav_pc>>

docVars == <<doc_text, doc_call, doc_document_type, doc_fields, doc_pc>>

svcVars == <<svc_email, svc_services, svc_fetched, svc_api_key, svc_gemini,
    svc_result, svc_pc>>

visVars == <<vis_passport_path, vis_readable, vis_text_len, vis_files,
    vis_preprocessed_path, vis_passes, vis_result, vis_pc>>

monVars == <<mon_running, mon_signalled, mon_cycle_count, mon_outcomes,
    mon_wait_left, mon_pc>>

vars == <<ocrVars, cropVars, attVars, clsVars, rotVars, stoVars, micVars,
          pipeVars, guiVars, gstVars, savVars, docVars, svcVars, visVars,
          monVars>>

\* The variables of the other components, which a component leaves alone
notOcrVars == <<cropVars, attVars, clsVars, rotVars, stoVars, micVars,
                pipeVars, guiVars, gstVars, savVars, docVars, svcVars,
                visVars, monVars>>
notCropVars == <<ocrVars, attVars, clsVars, rotVars, stoVars, micVars,
                 pipeVars, guiVars, gstVars, savVars, docVars, svcVars,
                 visVars, monVars>>
notAttVars == <<ocrVars, cropVars, clsVars, rotVars, stoVars, micVars,
                pipeVars, guiVars, gstVars, savVars, docVars, svcVars,
                visVars, monVars>>
notClsVars == <<ocrVars, cropVars, attVars, rotVars, stoVars, micVars,
                pipeVars, guiVars, gstVars, savVars, docVars, svcVars,
                visVars, monVars>>
notRotVars == <<ocrVars, cropVars, attVars, clsVars, stoVars, micVars,
                pipeVars, guiVars, gstVars, savVars, docVars, svcVars,
                visVars, monVars>>
notStoVars == <<ocrVars, cropVars, attVars, clsVars, rotVars, micVars,
                pipeVars, guiVars, gstVars, savVars, docVars, svcVars,
                visVars, monVars>>
notMicVars == <<ocrVars, cropVars, attVars, clsVars, rotVars, stoVars,
                pipeVars, guiVars, gstVars, savVars, docVars, svcVars,
                visVars, monVars>>
notPipeVars == <<ocrVars, cropVars, attVars, clsVars, rotVars, stoVars,
                 micVars, guiVars, gstVars, savVars, docVars, svcVars,
                 visVars, monVars>>
notGuiVars == <<ocrVars, cropVars, attVars, clsVars, rotVars, stoVars,
                micVars, pipeVars, gstVars, savVars, docVars, svcVars,
                visVars, monVars>>
notGstVars == <<ocrVars, cropVars, attVars, clsVars, rotVars, stoVars,
                micVars, pipeVars, guiVars, savVars, docVars, svcVars,
                visVars, monVars>>
notSavVars == <<ocrVars, cropVars, attVars, clsVars, rotVars, stoVars,
                micVars, pipeVars, guiVars, gstVars, docVars, svcVars,
                visVars, monVars>>
notDocVars == <<ocrVars, cropVars, attVars, clsVars, rotVars, stoVars,
                micVars, pipeVars, guiVars, gstVars, savVars, svcVars,
                visVars, monVars>>
notSvcVars == <<ocrVars, cropVars, attVars, clsVars, rotVars, stoVars,
                micVars, pipeVars, guiVars, gstVars, savVars, docVars,
                visVars, monVars>>
notVisVars == <<ocrVars, cropVars, attVars, clsVars, rotVars, stoVars,
                micVars, pipeVars, guiVars, gstVars, savVars, docVars,
                svcVars, monVars>>
notMonVars == <<ocrVars, cropVars, attVars, clsVars, rotVars, stoVars,
                micVars, pipeVars, guiVars, gstVars, savVars, docVars,
                svcVars, visVars>>

\* Python's None
None == "None"

\* ------------------------------------------------------------------- texts
\* Tokens that occur in the modelled texts.
Words == {"Passport", "no", "A1234567", "emirates", "id", "degree", "name", "JOHN"}

\* str.lower() on one token
LowerWord(w) ==
    CASE w = "Passport" -> "passport"
      [] w = "A1234567" -> "a1234567"
      [] w = "JOHN"     -> "john"
      [] w = "AL"       -> "al"
      [] w = "Attested" -> "attested"
      [] w = "Work"     -> "work"
      [] w = "Permit"   -> "permit"
      [] w = "Cancellation" -> "cancellation"
      [] w = "New"      -> "new"
      [] OTHER          -> w

\* str.lower() on a text
Lower(text) == [i \in DOMAIN text |-> LowerWord(text[i])]

\* All token sequences of length 0..n over S
SeqsUpTo(S, n) == UNION {[1..k -> S] : k \in 0..n}

\* Python's `kw in text` for a keyword made of whole tokens
KeywordIn(kw, text) ==
    \E i \in 1..(Len(text) - Len(kw) + 1) : SubSeq(text, i, i + Len(kw) - 1) = kw

\* dict.update(): the keys of b override those of a
DictUpdate(a, b) ==
    [k \in (DOMAIN a) \cup (DOMAIN b) |-> IF k \in DOMAIN b THEN b[k] ELSE a[k]]

EmptyDict == [k \in {} |-> None]

\* Tokens made of letters only; "A1234567" starts with a letter, "2020" is
\* made of digits
AlphaWords ==
    {"JOHN", "AL", "Passport", "no", "emirates", "id", "degree", "name", "Attested"}

\* The letters a token starts with, as the pieces of a captured string
LetterPrefix(w) ==
    CASE w \in AlphaWords -> <<w>>
      [] w = "A1234567"   -> <<"A">>
      [] OTHER            -> <<>>

\* len() of one token
WordLen(w) ==
    CASE w \in {"Passport", "emirates", "Attested", "A1234567"} -> 8
      [] w = "degree" -> 6
      [] w \in {"JOHN", "name", "2020"} -> 4
      [] w \in {"AL", "no", "id"} -> 2
      [] OTHER -> 1

\* len() of a string given as its blank-separated pieces
RECURSIVE StrLen(_)
StrLen(pieces) ==
    IF pieces = <<>> THEN 0
    ELSE IF Len(pieces) = 1 THEN WordLen(pieces[1])
    ELSE WordLen(Head(pieces)) + 1 + StrLen(Tail(pieces))

\* Positions where an occurrence of the label `lab`, matched with
\* re.IGNORECASE, ends and is followed by more text
LabelEnds(lab, text) ==
    {i + Len(lab) - 1 : i \in {j \in 1..(Len(text) - Len(lab)) :
                                  SubSeq(Lower(text), j, j + Len(lab) - 1) = lab}}

\* The group ([A-Za-z\s]+) from token i on, stripped: the run of letter
\* tokens, and the leading letters of the token that ends the run
RECURSIVE AlphaRun(_, _)
AlphaRun(text, i) ==
    IF i > Len(text) THEN <<>>
    ELSE IF text[i] \in AlphaWords THEN <<text[i]>> \o AlphaRun(text, i + 1)
    ELSE LetterPrefix(text[i])

\* re.findall(label[:\s]*(group), ocr_text, re.IGNORECASE)[0], stripped, or
\* NoneStr when the list is empty.  The group "alpha" is ([A-Za-z\s]+): when
\* no letter follows the label it captures the blank alone, and the stripped
\* value is the empty string.  The group "alnum" is ([A-Z0-9]+): the token
\* that follows the label.
FirstCapture(lab, cls, text) ==
    LET ends == LabelEnds(lab, text)
        e == CHOOSE i \in ends : \A j \in ends : i <= j
    IN IF ends = {} THEN <<None>>
       ELSE IF cls = "alpha" THEN AlphaRun(text, e + 1)
       ELSE <<text[e + 1]>>

\* `for pattern in patterns: ... if matches: fields[k] = matches[0]; break`:
\* the capture of the first pattern (in declared order) that matches
RECURSIVE FirstPattern(_, _, _)
FirstPattern(labels, cls, text) ==
    IF labels = <<>> THEN <<None>>
    ELSE LET v == FirstCapture(Head(labels), cls, text)
         IN IF v # <<None>> THEN v ELSE FirstPattern(Tail(labels), cls, text)

\* A dict holding key k only when a value was found
FieldIf(k, v) == IF v = <<None>> THEN EmptyDict ELSE [x \in {k} |-> v]

\* The pattern \b([A-Z]\d{7})\b: the first token of that shape
PassportShaped(text) ==
    LET hits == {i \in DOMAIN text : text[i] = "A1234567"}
    IN IF hits = {} THEN <<None>>
       ELSE <<text[CHOOSE i \in hits : \A j \in hits : i <= j]>>

\* re.sub of the words Profession, Employer, ..., Full Name, Name by '' and
\* of runs of blanks by one blank
RECURSIVE RemoveExtraWords(_)
RemoveExtraWords(pieces) ==
    IF pieces = <<>> THEN <<>>
    ELSE IF LowerWord(Head(pieces)) = "name" THEN RemoveExtraWords(Tail(pieces))
    ELSE <<Head(pieces)>> \o RemoveExtraWords(Tail(pieces))

\* The loop over name_patterns of extract_specific_fields: a cleaned name
\* of at most 3 characters is dropped and the next pattern is tried
RECURSIVE FirstReasonableName(_, _)
FirstReasonableName(labels, text) ==
    IF labels = <<>> THEN <<None>>
    ELSE LET v == FirstCapture(Head(labels), "alpha", text)
             name == RemoveExtraWords(v)
         IN IF v # <<None>> /\ StrLen(name) > 3
            THEN name
            ELSE FirstReasonableName(Tail(labels), text)

\* DocumentAIProcessor.extract_specific_fields (passport / general): the
\* fields "Passport Number" and "Full Name"
extract_specific_fields(ocr_text) ==
    DictUpdate(
        FieldIf("Passport Number",
                LET labelled ==
                        FirstPattern(<< <<"passport", "no">>, <<"passport", "number">> >>,
                                     "alnum", ocr_text)
                IN IF labelled # <<None>> THEN labelled ELSE PassportShaped(ocr_text)),
        FieldIf("Full Name",
                FirstReasonableName(<< <<"full", "name">>, <<"name">> >>, ocr_text)))

\* DocumentAIProcessor.extract_certificate_fields: the fields
\* "Degree/Qualification" and "Has Official Stamp"
extract_certificate_fields(ocr_text) ==
    DictUpdate(
        FieldIf("Degree/Qualification",
                FirstPattern(<< <<"bachelor">>, <<"master">>, <<"phd">>,
                                <<"diploma">>, <<"degree">> >>,
                             "alpha", ocr_text)),
        [x \in {"Has Official Stamp"} |->
            IF \E kw \in {"stamp", "seal", "official", "authenticated", "verified"} :
                  KeywordIn(<<kw>>, Lower(ocr_text))
            THEN <<"Yes">> ELSE <<"No">>])

\* DocumentAIProcessor.extract_emirates_id_fields: the fields "Full Name"
\* and "Nationality"
extract_emirates_id_fields(ocr_text) ==
    DictUpdate(
        FieldIf("Full Name",
                FirstPattern(<< <<"name">>, <<"full", "name">> >>,
                             "alpha", ocr_text)),
        FieldIf("Nationality",
                FirstPattern(<< <<"nationality">>, <<"citizen">> >>,
                             "alpha", ocr_text)))

\* Variant of get_document_type that tests the certificate keywords before
\* the attestation keywords.
get_document_type_certificate_first(ocr_text) ==
    LET text_lower == Lower(ocr_text)
        any(kws) == \E kw \in kws : KeywordIn(kw, text_lower)
    IN IF any({<<"passport">>, <<"passport", "no">>, <<"passport", "number">>})
         THEN "passport"
       ELSE IF any({<<"emirates", "id">>, <<"emirates", "identity">>, <<"uae", "id">>})
         THEN "emirates_id"
       ELSE IF any({<<"certificate">>, <<"degree">>, <<"diploma">>,
                    <<"university">>, <<"college">>})
         THEN "certificate"
       ELSE IF any({<<"attestation">>, <<"attested">>, <<"ministry">>, <<"government">>})
         THEN "attestation_certificate"
       ELSE "unknown"

\* DocumentAIProcessor.get_document_type
get_document_type(ocr_text) ==
    LET text_lower == Lower(ocr_text)
        any(kws) == \E kw \in kws : KeywordIn(kw, text_lower)
    IN IF any({<<"passport">>, <<"passport", "no">>, <<"passport", "number">>})
         THEN "passport"
       ELSE IF any({<<"emirates", "id">>, <<"emirates", "identity">>, <<"uae", "id">>})
         THEN "emirates_id"
       ELSE IF any({<<"attestation">>, <<"attested">>, <<"ministry">>, <<"government">>})
         THEN "attestation_certificate"
       ELSE IF any({<<"certificate">>, <<"degree">>, <<"diploma">>,
                    <<"university">>, <<"college">>})
         THEN "certificate"
       ELSE "unknown"

\* Variant of extract_fields_by_document_type in which, for an unknown
\* document, the value of the earlier extractor is kept on a shared key.
extract_fields_by_document_type_first_wins(ocr_text) ==
    LET document_type == get_document_type(ocr_text)
    IN CASE document_type = "passport" -> extract_specific_fields(ocr_text)
         [] document_type = "emirates_id" -> extract_emirates_id_fields(ocr_text)
         [] document_type = "attestation_certificate" -> extract_certificate_fields(ocr_text)
         [] document_type = "certificate" -> extract_certificate_fields(ocr_text)
         [] OTHER ->
              DictUpdate(DictUpdate(extract_emirates_id_fields(ocr_text),
                                    extract_certificate_fields(ocr_text)),
                         extract_specific_fields(ocr_text))

\* DocumentAIProcessor.extract_fields_by_document_type
extract_fields_by_document_type(ocr_text) ==
    LET document_type == get_document_type(ocr_text)
    IN CASE document_type = "passport" -> extract_specific_fields(ocr_text)
         [] document_type = "emirates_id" -> extract_emirates_id_fields(ocr_text)
         [] document_type = "attestation_certificate" -> extract_certificate_fields(ocr_text)
         [] document_type = "certificate" -> extract_certificate_fields(ocr_text)
         [] OTHER ->
              DictUpdate(DictUpdate(extract_specific_fields(ocr_text),
                                    extract_certificate_fields(ocr_text)),
                         extract_emirates_id_fields(ocr_text))

\* ------------------------------------------------------- run_enhanced_ocr
\* Confidence values (in tenths) the primary engine may report
Confidences == {0, 1, 2, 3, 9, 10}

\* What DOCUMENT_AI_PROCESSOR.process_document may do
DocAiBehaviours ==
    {[kind |-> "raise"], [kind |-> "error"]} \cup
    {[kind |-> "ok", full_text |-> t, confidence |-> c, pages |-> 1] :
        t \in SeqsUpTo(Words, MaxTextLen), c \in Confidences}

\* What run_google_vision_ocr may do
VisionBehaviours ==
    {[kind |-> "raise"]} \cup
    {[kind |-> "ok", ocr_text |-> t] : t \in SeqsUpTo(Words, MaxVisionLen)}

\* The result returned when Document AI is unavailable or failed
UnavailableResult ==
    [ocr_text |-> <<>>, confidence |-> 0, document_type |-> "unknown",
     extracted_fields |-> EmptyDict, ocr_method |-> "document_ai_unavailable",
     page_count |-> 0]

\* Variant of run_enhanced_ocr that hands every page to the secondary engine
\* after the primary one has answered.
run_enhanced_ocr_always_vision(available, enabled, docai, vision) ==
    IF available /\ enabled /\ docai.kind = "ok" /\ vision.kind = "ok"
    THEN [raised |-> FALSE, vision_calls |-> 1,
          result |-> [ocr_text |-> vision.ocr_text,
                      confidence |-> docai.confidence,
                      document_type |-> get_document_type(vision.ocr_text),
                      extracted_fields |->
                          extract_fields_by_document_type(vision.ocr_text),
                      ocr_method |-> "google_vision",
                      page_count |-> docai.pages]]
    ELSE [raised |-> FALSE, vision_calls |-> 0, result |-> UnavailableResult]

\* Variant of run_enhanced_ocr whose call of process_document is not guarded
\* by the try block.
run_enhanced_ocr_unguarded(available, enabled, docai, vision) ==
    IF available /\ enabled
    THEN IF docai.kind = "ok"
         THEN [raised |-> FALSE, vision_calls |-> 0,
               result |-> [ocr_text |-> docai.full_text,
                           confidence |-> docai.confidence,
                           document_type |-> get_document_type(docai.full_text),
                           extracted_fields |->
                               extract_fields_by_document_type(docai.full_text),
                           ocr_method |-> "document_ai",
                           page_count |-> docai.pages]]
         ELSE IF docai.kind = "raise"
         THEN [raised |-> TRUE, vision_calls |-> 0, result |-> None]
         ELSE [raised |-> FALSE, vision_calls |-> 0, result |-> UnavailableResult]
    ELSE [raised |-> FALSE, vision_calls |-> 0, result |-> UnavailableResult]

\* run_enhanced_ocr as a function of its environment: the value returned (or
\* None when it raises), whether it raised, and how often it called
\* run_google_vision_ocr.
run_enhanced_ocr(available, enabled, docai, vision) ==
    IF available /\ enabled
    THEN IF docai.kind = "ok"
         THEN [raised |-> FALSE, vision_calls |-> 0,
               result |-> [ocr_text |-> docai.full_text,
                           confidence |-> docai.confidence,
                           document_type |-> get_document_type(docai.full_text),
                           extracted_fields |->
                               extract_fields_by_document_type(docai.full_text),
                           ocr_method |-> "document_ai",
                           page_count |-> docai.pages]]
         ELSE \* error result, or an exception caught by the try block
              [raised |-> FALSE, vision_calls |-> 0, result |-> UnavailableResult]
    ELSE [raised |-> FALSE, vision_calls |-> 0, result |-> UnavailableResult]

OcrInit ==
    /\ DOCUMENT_AI_AVAILABLE \in BOOLEAN
    /\ docai_enabled \in BOOLEAN
    /\ docai_behaviour \in DocAiBehaviours
    /\ vision_behaviour \in VisionBehaviours
    /\ vision_calls = 0
    /\ ocr_result = None
    /\ ocr_raised = FALSE
    /\ ocr_pc = "start"

OcrIdle ==
    /\ DOCUMENT_AI_AVAILABLE = FALSE
    /\ docai_enabled = FALSE
    /\ docai_behaviour = [kind |-> "error"]
    /\ vision_behaviour = [kind |-> "raise"]
    /\ vision_calls = 0
    /\ ocr_result = None
    /\ ocr_raised = FALSE
    /\ ocr_pc = "idle"

\* One call of run_enhanced_ocr(image_path)
RunEnhancedOcr ==
    /\ ocr_pc = "start"
    /\ LET r == run_enhanced_ocr(DOCUMENT_AI_AVAILABLE, docai_enabled,
                                 docai_behaviour, vision_behaviour)
       IN /\ ocr_result' = r.result
          /\ ocr_raised' = r.raised
          /\ vision_calls' = vision_calls + r.vision_calls
    /\ ocr_pc' = "done"
    /\ UNCHANGED <<DOCUMENT_AI_AVAILABLE, docai_enabled, docai_behaviour,
                   vision_behaviour>>
    /\ UNCHANGED notOcrVars

OcrNext == RunEnhancedOcr

\* ----------------------------------------------------------- run_yolo_crop
\* Class names of the detection model; None stands for a box without cls
BoxLabels == {"attestation_label", "Attestation", "certificate", None}

\* Box coordinates <<x1, y1, x2, y2>>
Rects == {<<0, 0, 2, 2>>, <<0, 0, 1, 1>>, <<1, 1, 2, 2>>}

Boxes == [label : BoxLabels, xyxy : Rects]

\* "attestation" in label.lower()
IsAttestationLabel(label) == label \in {"attestation_label", "Attestation"}

\* Variant of run_yolo_crop that returns the whole page when the detector
\* finds nothing.
run_yolo_crop_whole_page(readable, boxes) ==
    IF ~readable
    THEN [kind |-> "raised", error |-> "could_not_read", detector_calls |-> 0]
    ELSE IF boxes = <<>>
    THEN [kind |-> "ok", cropped |-> <<0, 0, 2, 2>>, detector_calls |-> 1,
          output_path |-> "page_cropped.jpg"]
    ELSE [kind |-> "ok", cropped |-> boxes[1].xyxy, detector_calls |-> 1,
          output_path |-> "page_cropped.jpg"]

\* run_yolo_crop as a function of what imread and the detector return: the
\* region cropped and written, or the error raised.
run_yolo_crop(readable, boxes) ==
    IF ~readable
    THEN [kind |-> "raised", error |-> "could_not_read", detector_calls |-> 0]
    ELSE IF boxes = <<>>
    THEN [kind |-> "raised", error |-> "no_objects_detected", detector_calls |-> 1]
    ELSE LET detected_labels ==
                 {boxes[i].label : i \in {j \in DOMAIN boxes : boxes[j].label # None}}
             has_attestation_label ==
                 \E label \in detected_labels : IsAttestationLabel(label)
         IN IF has_attestation_label
            THEN [kind |-> "ok", cropped |-> boxes[1].xyxy, detector_calls |-> 1,
                  output_path |-> "page_cropped.jpg"]
            ELSE [kind |-> "ok", cropped |-> boxes[1].xyxy, detector_calls |-> 1,
                  output_path |-> "page_cropped.jpg"]

CropInit ==
    /\ image_readable \in BOOLEAN
    /\ yolo_boxes \in SeqsUpTo(Boxes, MaxBoxes)
    /\ detector_calls = 0
    /\ crop_result = [kind |-> "none"]
    /\ scratch_files = {}
    /\ crop_pc = "start"

CropIdle ==
    /\ image_readable = FALSE
    /\ yolo_boxes = <<>>
    /\ detector_calls = 0
    /\ crop_result = [kind |-> "none"]
    /\ scratch_files = {}
    /\ crop_pc = "idle"

\* One call of run_yolo_crop(image_path, output_dir)
RunYoloCrop ==
    /\ crop_pc = "start"
    /\ LET r == run_yolo_crop(image_readable, yolo_boxes)
       IN /\ crop_result' = r
          /\ detector_calls' = detector_calls + r.detector_calls
          /\ scratch_files' =
                IF r.kind = "ok"
                THEN scratch_files \cup {[path |-> r.output_path, region |-> r.cropped]}
                ELSE scratch_files
    /\ crop_pc' = "done"
    /\ UNCHANGED <<image_readable, yolo_boxes>>
    /\ UNCHANGED notCropVars

CropNext == RunYoloCrop

\* -------------------------------------------- validate_attestation_numbers
\* Strings are sequences of characters.  "A0".."A8" stand for the
\* Arabic-Indic digit glyphs; "x", "n", "u", "l" and " " are non-digits.
WesternDigits == {"0", "1", "4", "7", "8"}
ArabicDigits == {"A0", "A1", "A4", "A7", "A8"}

\* None as the value of a dict entry that otherwise holds a string
NoneStr == <<None>>

\* The dict arabic_to_western, applied to one character
arabic_to_western(c) ==
    CASE c = "A0" -> "0"
      [] c = "A1" -> "1"
      [] c = "A4" -> "4"
      [] c = "A7" -> "7"
      [] c = "A8" -> "8"
      [] OTHER    -> c

\* The loop of str.replace calls that builds normalized_ocr
NormalizeDigits(text) == [i \in DOMAIN text |-> arabic_to_western(text[i])]

\* str.lstrip('0')
RECURSIVE LStripZeros(_)
LStripZeros(str) ==
    IF str # <<>> /\ Head(str) = "0" THEN LStripZeros(Tail(str)) ELSE str

\* str.isdigit(): non-empty and every character is a digit of any script
IsDigit(str) ==
    /\ str # <<>>
    /\ \A i \in DOMAIN str : str[i] \in WesternDigits \cup ArabicDigits

\* Python's `a in b` on strings
IsSubstring(a, b) ==
    \E i \in 0..(Len(b) - Len(a)) : SubSeq(b, i + 1, i + Len(a)) = a

\* str.startswith
StartsWith(str, prefix) ==
    Len(str) >= Len(prefix) /\ SubSeq(str, 1, Len(prefix)) = prefix

NullLiteral == <<"n", "u", "l", "l">>

\* Variant of clean_attestation_number that compares the length of the raw
\* string instead of the cleaned one.
clean_attestation_number_raw_length(number_str, min_length, max_length) ==
    IF number_str = NoneStr \/ number_str = <<>> \/ number_str = NullLiteral
    THEN NoneStr
    ELSE LET cleaned == LStripZeros(number_str)
         IN IF ~IsDigit(cleaned) THEN NoneStr
            ELSE IF Len(number_str) < min_length \/ Len(number_str) > max_length
                 THEN NoneStr
            ELSE cleaned

\* The nested helper clean_attestation_number
clean_attestation_number(number_str, min_length, max_length) ==
    IF number_str = NoneStr \/ number_str = <<>> \/ number_str = NullLiteral
    THEN NoneStr
    ELSE LET cleaned == LStripZeros(number_str)
         IN IF ~IsDigit(cleaned) THEN NoneStr
            ELSE IF Len(cleaned) < min_length \/ Len(cleaned) > max_length
                 THEN NoneStr
            ELSE cleaned

AttKeys == {"Attestation Number 1", "Attestation Number 2"}

\* Variant of validate_attestation_numbers that keeps every well-formed
\* Attestation Number 2, also one that looks like an Emirates ID.
validate_attestation_numbers_no_eid_check(ocr_text, numbers) ==
    LET number1 ==
            IF "Attestation Number 1" \in DOMAIN numbers
            THEN clean_attestation_number(numbers["Attestation Number 1"], 5, 15)
            ELSE NoneStr
        number2 ==
            IF "Attestation Number 2" \in DOMAIN numbers
            THEN clean_attestation_number(numbers["Attestation Number 2"], 6, 7)
            ELSE NoneStr
    IN [k \in AttKeys |-> IF k = "Attestation Number 1" THEN number1 ELSE number2]

validate_attestation_numbers(ocr_text, numbers) ==
    LET normalized_ocr == NormalizeDigits(ocr_text)
        number1 ==
            IF "Attestation Number 1" \in DOMAIN numbers
            THEN LET cleaned_num1 ==
                         clean_attestation_number(numbers["Attestation Number 1"], 5, 15)
                 IN IF cleaned_num1 # NoneStr
                    THEN IF IsSubstring(cleaned_num1, normalized_ocr)
                         THEN cleaned_num1
                         ELSE cleaned_num1   \* trusted although not in the OCR text
                    ELSE NoneStr
            ELSE NoneStr
        number2 ==
            IF "Attestation Number 2" \in DOMAIN numbers
            THEN LET cleaned_num2 ==
                         clean_attestation_number(numbers["Attestation Number 2"], 6, 7)
                 IN IF cleaned_num2 # NoneStr
                    THEN IF IsSubstring(cleaned_num2, normalized_ocr)
                         THEN cleaned_num2
                         ELSE IF ~StartsWith(cleaned_num2, <<"7", "8", "4">>)
                              THEN cleaned_num2
                              ELSE NoneStr
                    ELSE NoneStr
            ELSE NoneStr
    IN [k \in AttKeys |-> IF k = "Attestation Number 1" THEN number1 ELSE number2]

\* n copies of the character c
Repeat(c, n) == [i \in 1..n |-> c]

\* Candidate numbers: leading zeros, a head, and a run of ones, the ones
\* written in either script
NumberHeads ==
    {<<>>, <<"7", "8", "4">>, <<"A7", "A8", "A4">>, <<"A0">>, <<"x">>}

Candidates ==
    {Repeat("0", z) \o h \o Repeat(one, n) :
        z \in 0..MaxZeros, h \in NumberHeads, n \in 0..MaxTail,
        one \in {"1", "A1"}}
    \cup {NoneStr, NullLiteral}

\* Recognized texts: an optional word, then a number in either script
OcrTexts ==
    {pre \o h \o Repeat(one, n) :
        pre \in {<<>>, <<"x", " ">>},
        h \in {<<>>, <<"7", "8", "4">>, <<"A7", "A8", "A4">>},
        n \in 0..MaxOcrTail, one \in {"1", "A1"}}

\* The dicts passed as extracted_numbers: one key holds a candidate, the
\* other key is absent or None
NumberDicts ==
    {[k \in {key} |-> c] : key \in AttKeys, c \in Candidates}
    \cup {[k \in AttKeys |-> IF k = key THEN c ELSE NoneStr] :
             key \in AttKeys, c \in Candidates}

AttInit ==
    /\ att_ocr_text \in OcrTexts
    /\ extracted_numbers \in NumberDicts
    /\ validated = EmptyDict
    /\ att_pc = "start"

AttIdle ==
    /\ att_ocr_text = <<>>
    /\ extracted_numbers = EmptyDict
    /\ validated = EmptyDict
    /\ att_pc = "idle"

\* One call of validate_attestation_numbers(ocr_text, extracted_numbers)
ValidateAttestationNumbers ==
    /\ att_pc = "start"
    /\ validated' = validate_attestation_numbers(att_ocr_text, extracted_numbers)
    /\ att_pc' = "done"
    /\ UNCHANGED <<att_ocr_text, extracted_numbers>>
    /\ UNCHANGED notAttVars

AttNext == ValidateAttestationNumbers

\* --------------------------------------------------------- classify_images
\* Labels the ResNet classifier may return
ClassLabels ==
    {"certificate", "certificate_attestation", "attestation_label",
     "emirates_id", "emirates_id_2", "unknown", "passport_1", "passport_2",
     "personal_photo"}

\* A path: the file of the page, and the angle in its name when it is a
\* rotated copy (0 for the original)
PagePath(i) == [file |-> i, rotated |-> 0]

\* The path f"{base_name}_rotated_{angle}deg.jpg"
RotatedPath(path, angle) == [file |-> path.file, rotated |-> angle]

\* Variant of rotation_check_types that also lists the identity card labels
rotation_check_types_with_ids ==
    {"passport_1", "passport_2", "personal_photo", "certificate",
     "emirates_id", "emirates_id_2"}

\* The list rotation_check_types
rotation_check_types == {"passport_1", "passport_2", "personal_photo", "certificate"}

\* Variant of Reconcile that retargets only the first eligible page
Reconcile_first_only(images) ==
    LET has_certificate ==
            \E i \in DOMAIN images : images[i].label = "certificate"
        has_attestation ==
            \E i \in DOMAIN images :
                images[i].label \in {"certificate_attestation", "attestation_label"}
        eligible ==
            {i \in DOMAIN images :
                images[i].label \in {"emirates_id", "emirates_id_2", "unknown"}}
    IN IF has_certificate /\ ~has_attestation
       THEN [i \in DOMAIN images |->
                IF i \in eligible /\ \A j \in eligible : i <= j
                THEN [images[i] EXCEPT !.label = "attestation_label"]
                ELSE images[i]]
       ELSE images

\* The certificate/attestation pairing pass over the labelled pages
Reconcile(images) ==
    LET has_certificate ==
            \E i \in DOMAIN images : images[i].label = "certificate"
        has_attestation ==
            \E i \in DOMAIN images :
                images[i].label \in {"certificate_attestation", "attestation_label"}
    IN IF has_certificate /\ ~has_attestation
       THEN [i \in DOMAIN images |->
                IF images[i].label \in {"emirates_id", "emirates_id_2", "unknown"}
                THEN [images[i] EXCEPT !.label = "attestation_label"]
                ELSE images[i]]
       ELSE images

ClsInit ==
    /\ image_paths \in {[i \in 1..n |-> PagePath(i)] : n \in 0..MaxPages}
    /\ classified_images = <<>>
    /\ resnet_labelled = <<>>
    /\ rotate_calls = {}
    /\ cls_index = 1
    /\ cls_pc = "classify"

ClsIdle ==
    /\ image_paths = <<>>
    /\ classified_images = <<>>
    /\ resnet_labelled = <<>>
    /\ rotate_calls = {}
    /\ cls_index = 1
    /\ cls_pc = "idle"

\* One iteration of the first loop: classify_image_resnet returns a label or
\* raises, and a page whose classification raised is not appended
ClassifyPage ==
    /\ cls_pc = "classify"
    /\ cls_index <= Len(image_paths)
    /\ \E outcome \in ClassLabels \cup {"raise"} :
          classified_images' =
             IF outcome = "raise" THEN classified_images
             ELSE Append(classified_images,
                         [path |-> image_paths[cls_index], label |-> outcome,
                          filename |-> image_paths[cls_index].file])
    /\ cls_index' = cls_index + 1
    /\ UNCHANGED <<image_paths, resnet_labelled, rotate_calls, cls_pc>>
    /\ UNCHANGED notClsVars

\* The pairing pass, run once when the first loop has ended
ReconcileLabels ==
    /\ cls_pc = "classify"
    /\ cls_index > Len(image_paths)
    /\ resnet_labelled' = classified_images
    /\ classified_images' = Reconcile(classified_images)
    /\ cls_index' = 1
    /\ cls_pc' = "rotate"
    /\ UNCHANGED <<image_paths, rotate_calls>>
    /\ UNCHANGED notClsVars

\* One iteration of the rotation loop: rotate_if_needed is called for the
\* labels of rotation_check_types only; it returns the same path, a new
\* path, or raises (the exception is caught and the page kept as it is)
RotatePage ==
    /\ cls_pc = "rotate"
    /\ cls_index <= Len(classified_images)
    /\ LET img_data == classified_images[cls_index]
       IN IF img_data.label \in rotation_check_types
          THEN /\ rotate_calls' = rotate_calls \cup {img_data.path}
               /\ \E outcome \in {"same", "rotated", "raise"} :
                     classified_images' =
                        IF outcome = "rotated"
                        THEN [classified_images EXCEPT
                                 ![cls_index].path = RotatedPath(img_data.path, 90)]
                        ELSE classified_images
          ELSE UNCHANGED <<rotate_calls, classified_images>>
    /\ cls_index' = cls_index + 1
    /\ UNCHANGED <<image_paths, resnet_labelled, cls_pc>>
    /\ UNCHANGED notClsVars

\* classify_images returns classified_images
ClassifyReturn ==
    /\ cls_pc = "rotate"
    /\ cls_index > Len(classified_images)
    /\ cls_pc' = "done"
    /\ UNCHANGED <<image_paths, classified_images, resnet_labelled, rotate_calls,
                   cls_index>>
    /\ UNCHANGED notClsVars

ClsNext ==
    \/ ClassifyPage
    \/ ReconcileLabels
    \/ RotatePage
    \/ ClassifyReturn

\* ---------------------------------------- rotate_image_if_needed_google_ai
\* The set ROTATABLE_CLASSES
ROTATABLE_CLASSES == {"passport_1", "passport_2", "personal_photo", "certificate"}

\* Angles a decision may carry
DecisionAngles == {0, 45, 90, 180, 270}

\* What encode_image_to_base64 and model.generate_content may do: the image
\* cannot be encoded, the call raises, the answer is not JSON, the answer is
\* JSON but not an object, or it is an object with some of the keys
GeminiBehaviours ==
    {[kind |-> k] : k \in {"encode_fail", "raise", "not_json", "non_object"}}
    \cup
    {[kind |-> "object", keys |-> ks, rotation_needed |-> n, rotation_angle |-> a] :
        ks \in SUBSET {"error", "rotation_needed", "rotation_angle"},
        n \in BOOLEAN, a \in DecisionAngles}

\* The dict returned on every failure path of detect_orientation_with_gemini
ErrorDecision ==
    [kind |-> "dict", keys |-> {"rotation_needed", "rotation_angle", "error"},
     rotation_needed |-> FALSE, rotation_angle |-> 0]

\* detect_orientation_with_gemini: the value returned and the number of
\* calls of the judgment service
detect_orientation_with_gemini(doc_class, gemini) ==
    IF gemini.kind = "encode_fail"
    THEN [value |-> ErrorDecision, calls |-> 0]
    ELSE IF doc_class \notin {"passport_1", "passport_2", "personal_photo", "certificate"}
    THEN [value |-> ErrorDecision, calls |-> 0]
    ELSE IF gemini.kind \in {"raise", "not_json"}
    THEN [value |-> ErrorDecision, calls |-> 1]
    ELSE IF gemini.kind = "non_object"
    THEN [value |-> [kind |-> "non_dict"], calls |-> 1]
    ELSE [value |-> [kind |-> "dict", keys |-> gemini.keys,
                     rotation_needed |-> gemini.rotation_needed,
                     rotation_angle |-> gemini.rotation_angle],
          calls |-> 1]

\* dict.get(key, default)
DictGet(dict, key, value, default) == IF key \in dict.keys THEN value ELSE default

\* rotate_image: the path returned and the files written
rotate_image(image_path, angle, io) ==
    IF io = "ok"
    THEN [path |-> RotatedPath(image_path, angle),
          written |-> {RotatedPath(image_path, angle)}]
    ELSE \* unreadable image, failed write, or an exception caught inside
         [path |-> image_path, written |-> {}]

rotate_image_if_needed_google_ai(image_path, doc_class, gemini, io) ==
    IF doc_class \notin ROTATABLE_CLASSES
    THEN [raised |-> FALSE, path |-> image_path, calls |-> 0, written |-> {}]
    ELSE LET detection == detect_orientation_with_gemini(doc_class, gemini)
             orientation_result == detection.value
         IN IF orientation_result.kind = "non_dict"
            THEN \* `"error" in x` or x.get fails on a value that is no dict
                 [raised |-> TRUE, path |-> image_path, calls |-> detection.calls,
                  written |-> {}]
            ELSE IF "error" \in orientation_result.keys
            THEN [raised |-> FALSE, path |-> image_path, calls |-> detection.calls,
                  written |-> {}]
            ELSE IF ~DictGet(orientation_result, "rotation_needed",
                             orientation_result.rotation_needed, FALSE)
            THEN [raised |-> FALSE, path |-> image_path, calls |-> detection.calls,
                  written |-> {}]
            ELSE LET rotation_angle ==
                         DictGet(orientation_result, "rotation_angle",
                                 orientation_result.rotation_angle, 0)
                 IN IF rotation_angle = 0
                    THEN [raised |-> FALSE, path |-> image_path,
                          calls |-> detection.calls, written |-> {}]
                    ELSE LET rotated == rotate_image(image_path, rotation_angle, io)
                         IN [raised |-> FALSE, path |-> rotated.path,
                             calls |-> detection.calls, written |-> rotated.written]

RotInit ==
    /\ rot_image_path = PagePath(1)
    /\ rot_doc_class \in ClassLabels
    /\ gemini_behaviour \in GeminiBehaviours
    /\ image_io \in {"ok", "unreadable", "write_failed", "raise"}
    /\ gemini_calls = 0
    /\ rot_files = {}
    /\ rot_result = [raised |-> FALSE, path |-> PagePath(1)]
    /\ rot_pc = "start"

RotIdle ==
    /\ rot_image_path = PagePath(1)
    /\ rot_doc_class = "unknown"
    /\ gemini_behaviour = [kind |-> "raise"]
    /\ image_io = "ok"
    /\ gemini_calls = 0
    /\ rot_files = {}
    /\ rot_result = [raised |-> FALSE, path |-> PagePath(1)]
    /\ rot_pc = "idle"

\* One call of rotate_image_if_needed_google_ai(image_path, doc_class)
RotateImageIfNeeded ==
    /\ rot_pc = "start"
    /\ LET r == rotate_image_if_needed_google_ai(rot_image_path, rot_doc_class,
                                                 gemini_behaviour, image_io)
       IN /\ rot_result' = [raised |-> r.raised, path |-> r.path]
          /\ gemini_calls' = gemini_calls + r.calls
          /\ rot_files' = rot_files \cup r.written
    /\ rot_pc' = "done"
    /\ UNCHANGED <<rot_image_path, rot_doc_class, gemini_behaviour, image_io>>
    /\ UNCHANGED notRotVars

RotNext == RotateImageIfNeeded

\* ------------------------------------------ detect_text_orientation_simple
\* The list `orientations`, in the order it is scanned
Orientations == <<0, 90, 180, 270>>

OrientationSet == {Orientations[i] : i \in DOMAIN Orientations}

\* The test `text_len > best_text_len` with >= in place of >
IsLonger_or_equal(text_len, best_text_len) == text_len >= best_text_len

\* The test `text_len > best_text_len`
IsLonger(text_len, best_text_len) == text_len > best_text_len

\* The loop over `orientations`: scan.raised tells that a recognition call
\* raised and ended the loop
RECURSIVE ScanOrientations(_, _, _, _)
ScanOrientations(angles, text_len, fails, scan) ==
    IF angles = <<>>
    THEN scan
    ELSE LET angle == Head(angles)
         IN IF angle \in fails
            THEN [scan EXCEPT !.raised = TRUE, !.calls = @ + 1]
            ELSE ScanOrientations(Tail(angles), text_len, fails,
                     IF IsLonger(text_len[angle], scan.best_text_len)
                     THEN [scan EXCEPT !.best_text_len = text_len[angle],
                                       !.best_orientation = angle,
                                       !.calls = @ + 1]
                     ELSE [scan EXCEPT !.calls = @ + 1])

\* The dict returned when the image is unreadable or anything raised
StoFailure(reason, calls) ==
    [rotation_needed |-> FALSE, rotation_angle |-> 0, confidence |-> 0,
     reason |-> reason, detected_text_length |-> 0, calls |-> calls]

\* detect_text_orientation_simple: the dict returned, with the number of
\* recognition calls made
detect_text_orientation_simple(readable, text_len, fails) ==
    IF ~readable
    THEN StoFailure("Failed to read image", 0)
    ELSE LET scan == ScanOrientations(Orientations, text_len, fails,
                         [raised |-> FALSE, best_orientation |-> 0,
                          best_text_len |-> 0, calls |-> 0])
         IN IF scan.raised
            THEN StoFailure("Error", scan.calls)
            ELSE [rotation_needed |-> scan.best_orientation # 0,
                  rotation_angle |-> scan.best_orientation,
                  confidence |-> scan.best_text_len,
                  reason |-> IF scan.best_orientation # 0
                             THEN "more text at rotation"
                             ELSE "Text appears correctly oriented",
                  detected_text_length |-> scan.best_text_len,
                  calls |-> scan.calls]

StoUnset ==
    [rotation_needed |-> FALSE, rotation_angle |-> 0, confidence |-> 0,
     reason |-> "unset", detected_text_length |-> 0]

StoInit ==
    /\ sto_readable \in BOOLEAN
    /\ sto_text_len \in [OrientationSet -> 0..MaxOcrLen]
    /\ sto_ocr_fails \in SUBSET OrientationSet
    /\ sto_ocr_calls = 0
    /\ sto_result = StoUnset
    /\ sto_pc = "start"

StoIdle ==
    /\ sto_readable = FALSE
    /\ sto_text_len = [a \in OrientationSet |-> 0]
    /\ sto_ocr_fails = {}
    /\ sto_ocr_calls = 0
    /\ sto_result = StoUnset
    /\ sto_pc = "idle"

\* One call of detect_text_orientation_simple(image_path)
DetectTextOrientationSimple ==
    /\ sto_pc = "start"
    /\ LET r == detect_text_orientation_simple(sto_readable, sto_text_len,
                                               sto_ocr_fails)
       IN /\ sto_result' = [rotation_needed |-> r.rotation_needed,
                            rotation_angle |-> r.rotation_angle,
                            confidence |-> r.confidence,
                            reason |-> r.reason,
                            detected_text_length |-> r.detected_text_length]
          /\ sto_ocr_calls' = sto_ocr_calls + r.calls
    /\ sto_pc' = "done"
    /\ UNCHANGED <<sto_readable, sto_text_len, sto_ocr_fails>>
    /\ UNCHANGED notStoVars

StoNext == DetectTextOrientationSimple

\* ----------------------------------- main: classification loop in the body
\* One iteration of `for img_path in all_image_paths`: the handler of the
\* loop prints and re-raises, so a failure of classify_image_resnet leaves
\* main
MainClassifyStep(classified, img_path, outcome) ==
    IF outcome = "raise"
    THEN [raised |-> TRUE, classified |-> classified]
    ELSE [raised |-> FALSE,
          classified |-> Append(classified,
                                [path |-> img_path, label |-> outcome,
                                 filename |-> img_path.file])]

MicInit ==
    /\ mic_image_paths \in {[i \in 1..n |-> PagePath(i)] : n \in 1..MaxPages}
    /\ mic_classified = <<>>
    /\ mic_failed = {}
    /\ mic_raised = FALSE
    /\ mic_index = 1
    /\ mic_pc = "classify"

MicIdle ==
    /\ mic_image_paths = <<>>
    /\ mic_classified = <<>>
    /\ mic_failed = {}
    /\ mic_raised = FALSE
    /\ mic_index = 1
    /\ mic_pc = "idle"

\* classify_image_resnet(img_path) returns a label or raises
MainClassifyPage ==
    /\ mic_pc = "classify"
    /\ mic_index <= Len(mic_image_paths)
    /\ \E outcome \in ClassLabels \cup {"raise"} :
          LET step == MainClassifyStep(mic_classified,
                                       mic_image_paths[mic_index], outcome)
          IN /\ mic_classified' = step.classified
             /\ mic_raised' = step.raised
             /\ mic_failed' = IF outcome = "raise"
                              THEN mic_failed \cup {mic_image_paths[mic_index]}
                              ELSE mic_failed
             /\ mic_pc' = IF step.raised THEN "done" ELSE "classify"
    /\ mic_index' = mic_index + 1
    /\ UNCHANGED mic_image_paths
    /\ UNCHANGED notMicVars

\* The loop has gone through every page
MainClassifyEnd ==
    /\ mic_pc = "classify"
    /\ mic_index > Len(mic_image_paths)
    /\ mic_pc' = "done"
    /\ UNCHANGED <<mic_image_paths, mic_classified, mic_failed, mic_raised,
                   mic_index>>
    /\ UNCHANGED notMicVars

MicNext == MainClassifyPage \/ MainClassifyEnd

\* ------------------------------------------------ main: the bundle loop
\* main_pipeline.py holds the stages twice, as functions and written out in
\* the body of main.  This component follows the functions main calls:
\* convert_documents, classify_images, perform_ocr, gemini_structuring and
\* save_results.  Paths are not tracked here, labels are.
PipeLabels == {"certificate", "emirates_id"}

\* What the detector may return for a page
PipeBoxes == {<<>>, <<[label |-> "certificate", xyxy |-> <<0, 0, 1, 1>>]>>}

\* Variant of LoopDone that leaves the loop before its last item
LoopDone_before_last(index, items) == index >= Len(items)

\* Exit test of a loop `for x in items`
LoopDone(index, items) == index > Len(items)

\* `if not processed_images: continue`
NothingProcessed(processed_images) == processed_images = <<>>

NewPage(file, label) ==
    [file |-> file, label |-> label, crop_calls |-> 0, detector_calls |-> 0,
     cropped |-> FALSE, recognized |-> FALSE, extracted |-> FALSE]

PipeBundleReset ==
    /\ pipe_index' = 1
    /\ pipe_classified' = <<>>
    /\ pipe_dropped' = {}
    /\ pipe_reconciled' = 0
    /\ pipe_no_boxes' = {}
    /\ pipe_processed' = <<>>
    /\ pipe_structured' = FALSE
    /\ pipe_saved' = {}
    /\ pipe_save_failed' = FALSE

PipeBundleIdle ==
    /\ pipe_index = 1
    /\ pipe_npages = 0
    /\ pipe_classified = <<>>
    /\ pipe_dropped = {}
    /\ pipe_reconciled = 0
    /\ pipe_no_boxes = {}
    /\ pipe_processed = <<>>
    /\ pipe_structured = FALSE
    /\ pipe_saved = {}
    /\ pipe_save_failed = FALSE

PipeInit ==
    /\ pipe_nfolders \in 1..MaxBundles
    /\ pipe_folder = 1
    /\ pipe_status = [f \in 1..pipe_nfolders |-> "pending"]
    /\ pipe_pc = "next_folder"
    /\ PipeBundleIdle

PipeIdle ==
    /\ pipe_nfolders = 0
    /\ pipe_folder = 1
    /\ pipe_status = <<>>
    /\ pipe_pc = "idle"
    /\ PipeBundleIdle

\* The current folder is left; main turns to the next one
LeaveFolder(status) ==
    /\ pipe_status' = [pipe_status EXCEPT ![pipe_folder] = status]
    /\ pipe_folder' = pipe_folder + 1
    /\ pipe_pc' = "next_folder"

\* for subject_folder in os.listdir(download_dir): convert_documents, and
\* `continue` when the folder holds no image
PipeNextFolder ==
    /\ pipe_pc = "next_folder"
    /\ pipe_folder <= pipe_nfolders
    /\ \E n \in 0..MaxBundlePages :
          /\ pipe_npages' = n
          /\ IF n = 0
             THEN LeaveFolder("no_images")
             ELSE /\ pipe_pc' = "classify"
                  /\ UNCHANGED <<pipe_folder, pipe_status>>
    /\ PipeBundleReset
    /\ UNCHANGED pipe_nfolders
    /\ UNCHANGED notPipeVars

\* classify_images, first loop: a page whose classification raises is not
\* appended
PipeClassifyPage ==
    /\ pipe_pc = "classify"
    /\ pipe_index <= pipe_npages
    /\ \E outcome \in PipeLabels \cup {"raise"} :
          IF outcome = "raise"
          THEN /\ pipe_dropped' = pipe_dropped \cup {pipe_index}
               /\ UNCHANGED pipe_classified
          ELSE /\ pipe_classified' =
                      Append(pipe_classified, NewPage(pipe_index, outcome))
               /\ UNCHANGED pipe_dropped
    /\ pipe_index' = pipe_index + 1
    /\ UNCHANGED <<pipe_nfolders, pipe_folder, pipe_status, pipe_pc,
                   pipe_npages, pipe_reconciled, pipe_no_boxes, pipe_processed,
                   pipe_structured, pipe_saved, pipe_save_failed>>
    /\ UNCHANGED notPipeVars

\* classify_images, after the first loop: the pairing pass, then the
\* rotation loop (which changes paths only), then return
PipeReconcileAndRotate ==
    /\ pipe_pc = "classify"
    /\ pipe_index > pipe_npages
    /\ pipe_classified' = Reconcile(pipe_classified)
    /\ pipe_reconciled' = pipe_reconciled + 1
    /\ pipe_index' = 1
    /\ pipe_pc' = "crop"
    /\ UNCHANGED <<pipe_nfolders, pipe_folder, pipe_status, pipe_npages,
                   pipe_dropped, pipe_no_boxes, pipe_processed,
                   pipe_structured, pipe_saved, pipe_save_failed>>
    /\ UNCHANGED notPipeVars

\* perform_ocr: run_yolo_crop on the page; its exception is caught by the
\* handler of the loop body, which goes on with the next page
PipeCrop ==
    /\ pipe_pc = "crop"
    /\ ~LoopDone(pipe_index, pipe_classified)
    /\ \E readable \in BOOLEAN, boxes \in PipeBoxes :
          LET r == run_yolo_crop(readable, boxes)
              page == pipe_classified[pipe_index]
          IN /\ pipe_classified' =
                    [pipe_classified EXCEPT ![pipe_index] =
                        [page EXCEPT !.crop_calls = @ + 1,
                                     !.detector_calls = @ + r.detector_calls,
                                     !.cropped = (r.kind = "ok")]]
             /\ pipe_no_boxes' =
                    IF readable /\ boxes = <<>>
                    THEN pipe_no_boxes \cup {page.file}
                    ELSE pipe_no_boxes
             /\ IF r.kind = "raised"
                THEN /\ pipe_index' = pipe_index + 1
                     /\ pipe_pc' = "crop"
                ELSE /\ pipe_index' = pipe_index
                     /\ pipe_pc' = "recognize"
    /\ UNCHANGED <<pipe_nfolders, pipe_folder, pipe_status, pipe_npages,
                   pipe_dropped, pipe_reconciled, pipe_processed,
                   pipe_structured, pipe_saved, pipe_save_failed>>
    /\ UNCHANGED notPipeVars

\* perform_ocr -> run_enhanced_ocr: the recognition call.  Without a text
\* (engine unavailable, error result, exception caught) the empty result is
\* returned and the page is appended without extraction.
PipeRecognize ==
    /\ pipe_pc = "recognize"
    /\ \E recognition \in {"ok", "error", "raise", "unavailable"} :
          /\ pipe_classified' =
                 [pipe_classified EXCEPT ![pipe_index].recognized = TRUE]
          /\ IF recognition = "ok"
             THEN /\ pipe_pc' = "extract"
                  /\ UNCHANGED <<pipe_index, pipe_processed>>
             ELSE /\ pipe_pc' = "crop"
                  /\ pipe_index' = pipe_index + 1
                  /\ pipe_processed' =
                         Append(pipe_processed, pipe_classified[pipe_index].file)
    /\ UNCHANGED <<pipe_nfolders, pipe_folder, pipe_status, pipe_npages,
                   pipe_dropped, pipe_reconciled, pipe_no_boxes,
                   pipe_structured, pipe_saved, pipe_save_failed>>
    /\ UNCHANGED notPipeVars

\* run_enhanced_ocr: get_document_type and extract_fields_by_document_type
\* on the recognized text; perform_ocr then appends the page
PipeExtract ==
    /\ pipe_pc = "extract"
    /\ pipe_classified' =
           [pipe_classified EXCEPT ![pipe_index].extracted = TRUE]
    /\ pipe_processed' = Append(pipe_processed, pipe_classified[pipe_index].file)
    /\ pipe_index' = pipe_index + 1
    /\ pipe_pc' = "crop"
    /\ UNCHANGED <<pipe_nfolders, pipe_folder, pipe_status, pipe_npages,
                   pipe_dropped, pipe_reconciled, pipe_no_boxes,
                   pipe_structured, pipe_saved, pipe_save_failed>>
    /\ UNCHANGED notPipeVars

\* perform_ocr returns; main skips the folder when nothing was processed,
\* and calls gemini_structuring otherwise
PipeStructure ==
    /\ pipe_pc = "crop"
    /\ LoopDone(pipe_index, pipe_classified)
    /\ IF NothingProcessed(pipe_processed)
       THEN /\ LeaveFolder("no_processed")
            /\ UNCHANGED <<pipe_structured, pipe_index>>
       ELSE /\ pipe_structured' = TRUE
            /\ pipe_index' = 1
            /\ pipe_pc' = "save"
            /\ UNCHANGED <<pipe_folder, pipe_status>>
    /\ UNCHANGED <<pipe_nfolders, pipe_npages, pipe_classified, pipe_dropped,
                   pipe_reconciled, pipe_no_boxes, pipe_processed, pipe_saved,
                   pipe_save_failed>>
    /\ UNCHANGED notPipeVars

\* What shutil.copy2 and the JSON write in save_outputs may do
SaveOutcomes == {"ok", "copy_failed", "json_failed"}

\* save_outputs: raises RuntimeError when the copy or the JSON write fails
save_outputs_raises(outcome) == outcome \in {"copy_failed", "json_failed"}

\* save_results, first loop: save_outputs for one processed page.  Nothing
\* in save_results or in main catches its RuntimeError, which leaves main.
PipeSavePage ==
    /\ pipe_pc = "save"
    /\ ~LoopDone(pipe_index, pipe_processed)
    /\ \E outcome \in SaveOutcomes :
          IF save_outputs_raises(outcome)
          THEN /\ pipe_save_failed' = TRUE
               /\ pipe_pc' = "raised"
               /\ UNCHANGED <<pipe_saved, pipe_index>>
          ELSE /\ pipe_saved' = pipe_saved \cup {pipe_processed[pipe_index]}
               /\ pipe_index' = pipe_index + 1
               /\ UNCHANGED <<pipe_save_failed, pipe_pc>>
    /\ UNCHANGED <<pipe_nfolders, pipe_folder, pipe_status, pipe_npages,
                   pipe_classified, pipe_dropped, pipe_reconciled,
                   pipe_no_boxes, pipe_processed, pipe_structured>>
    /\ UNCHANGED notPipeVars

\* save_results returns (its second loop compresses the saved files); main
\* adds the folder to processed_folders
PipeFolderDone ==
    /\ pipe_pc = "save"
    /\ LoopDone(pipe_index, pipe_processed)
    /\ LeaveFolder("saved")
    /\ UNCHANGED <<pipe_nfolders, pipe_index, pipe_npages, pipe_classified,
                   pipe_dropped, pipe_reconciled, pipe_no_boxes, pipe_processed,
                   pipe_structured, pipe_saved, pipe_save_failed>>
    /\ UNCHANGED notPipeVars

\* The folder loop has ended: main returns
PipeFinish ==
    /\ pipe_pc = "next_folder"
    /\ pipe_folder > pipe_nfolders
    /\ pipe_pc' = "finished"
    /\ UNCHANGED <<pipe_nfolders, pipe_folder, pipe_status, pipe_index,
                   pipe_npages, pipe_classified, pipe_dropped, pipe_reconciled,
                   pipe_no_boxes, pipe_processed, pipe_structured, pipe_saved,
                   pipe_save_failed>>
    /\ UNCHANGED notPipeVars

PipeNext ==
    \/ PipeNextFolder
    \/ PipeClassifyPage
    \/ PipeReconcileAndRotate
    \/ PipeCrop
    \/ PipeRecognize
    \/ PipeExtract
    \/ PipeStructure
    \/ PipeSavePage
    \/ PipeFolderDone
    \/ PipeFinish

\* ------------------------------------------------------------- gui_app
\* A thread as started by a button: what it runs and how far it is
Worker(target) == [target |-> target, state |-> "started"]

\* Threads that have not returned yet
RunningWorkers == {i \in DOMAIN gui_workers : gui_workers[i].state # "done"}

GuiInit ==
    /\ gui_window_open = FALSE
    /\ gui_file_paths = 0
    /\ gui_start_enabled = FALSE
    /\ gui_workers = <<>>
    /\ gui_pc = "mainloop"

GuiIdle ==
    /\ gui_window_open = FALSE
    /\ gui_file_paths = 0
    /\ gui_start_enabled = FALSE
    /\ gui_workers = <<>>
    /\ gui_pc = "idle"

\* Button "Run Full Pipeline": the command starts a daemon thread on
\* run_full_pipeline, whatever the threads started before are doing
ClickRunFullPipeline ==
    /\ gui_pc = "mainloop"
    /\ Len(gui_workers) < MaxClicks
    /\ gui_workers' = Append(gui_workers, Worker("run_full_pipeline"))
    /\ UNCHANGED <<gui_window_open, gui_file_paths, gui_start_enabled, gui_pc>>
    /\ UNCHANGED notGuiVars

\* Button "Manual File Processing": ManualProcessingWindow(root)
OpenManualWindow ==
    /\ gui_pc = "mainloop"
    /\ ~gui_window_open
    /\ gui_window_open' = TRUE
    /\ gui_file_paths' = 0
    /\ gui_start_enabled' = FALSE
    /\ UNCHANGED <<gui_workers, gui_pc>>
    /\ UNCHANGED notGuiVars

\* _add_files with one new path
AddFile ==
    /\ gui_pc = "mainloop"
    /\ gui_window_open
    /\ gui_file_paths < MaxFiles
    /\ gui_file_paths' = gui_file_paths + 1
    /\ gui_start_enabled' = TRUE
    /\ UNCHANGED <<gui_window_open, gui_workers, gui_pc>>
    /\ UNCHANGED notGuiVars

\* _remove_file
RemoveFile ==
    /\ gui_pc = "mainloop"
    /\ gui_window_open
    /\ gui_file_paths > 0
    /\ gui_file_paths' = gui_file_paths - 1
    /\ gui_start_enabled' = IF gui_file_paths' = 0 THEN FALSE ELSE gui_start_enabled
    /\ UNCHANGED <<gui_window_open, gui_workers, gui_pc>>
    /\ UNCHANGED notGuiVars

\* Button "Start Processing": _start_processing starts a daemon thread on
\* _process_files and leaves the button as it is
ClickStartProcessing ==
    /\ gui_pc = "mainloop"
    /\ gui_window_open
    /\ gui_start_enabled
    /\ Len(gui_workers) < MaxClicks
    /\ gui_workers' = Append(gui_workers, Worker("_process_files"))
    /\ UNCHANGED <<gui_window_open, gui_file_paths, gui_start_enabled, gui_pc>>
    /\ UNCHANGED notGuiVars

\* A thread gets to write the scratch directory and the output files
WorkerWrites(i) ==
    /\ gui_workers[i].state = "started"
    /\ gui_workers' = [gui_workers EXCEPT ![i].state = "writing"]
    /\ UNCHANGED <<gui_window_open, gui_file_paths, gui_start_enabled, gui_pc>>
    /\ UNCHANGED notGuiVars

\* The target of a thread returns
WorkerReturns(i) ==
    /\ gui_workers[i].state = "writing"
    /\ gui_workers' = [gui_workers EXCEPT ![i].state = "done"]
    /\ UNCHANGED <<gui_window_open, gui_file_paths, gui_start_enabled, gui_pc>>
    /\ UNCHANGED notGuiVars

GuiNext ==
    \/ ClickRunFullPipeline
    \/ OpenManualWindow
    \/ AddFile
    \/ RemoveFile
    \/ ClickStartProcessing
    \/ \E i \in DOMAIN gui_workers : WorkerWrites(i)
    \/ \E i \in DOMAIN gui_workers : WorkerReturns(i)

\* ------------------------------------------------------ gemini_structuring
\* Labels of the pages handed to gemini_structuring in this component
StructLabels == {"passport_1", "certificate", "attestation_label", "personal_photo"}

\* The text recognized on page i, and the fields extracted from it
PageText(i) == <<<<"t1">>, <<"t2">>, <<"t3">>, <<"t4">>>>[i]

PageFields(i) == [k \in {"Full Name"} |-> PageText(i)[1]]

\* The labels that have a text argument of their own, with the name of the
\* argument and the key of the fields in google_metadata
RoleLabels ==
    {"passport_1", "passport_2", "emirates_id", "emirates_id_2",
     "employee_info_form", "certificate"}

TextArgument(label) ==
    CASE label = "passport_1" -> "passport_ocr_1"
      [] label = "passport_2" -> "passport_ocr_2"
      [] label = "emirates_id" -> "emirates_id_ocr"
      [] label = "emirates_id_2" -> "emirates_id_2_ocr"
      [] label = "employee_info_form" -> "employee_info"
      [] label = "certificate" -> "certificate_ocr"

FieldsKey(label) ==
    CASE label = "passport_1" -> "passport_1_fields"
      [] label = "passport_2" -> "passport_2_fields"
      [] label = "emirates_id" -> "emirates_id_fields"
      [] label = "emirates_id_2" -> "emirates_id_2_fields"
      [] label = "employee_info_form" -> "employee_info_fields"
      [] label = "certificate" -> "certificate_fields"

TextArguments == {TextArgument(label) : label \in RoleLabels}

\* `if extracted_fields: google_metadata[key] = extracted_fields`
StoreFields(google_metadata, key, extracted_fields) ==
    IF extracted_fields # EmptyDict
    THEN DictUpdate(google_metadata, [k \in {key} |-> extracted_fields])
    ELSE google_metadata

\* One iteration of `for img_data in processed_images`
StructuringStep(acc, img_data) ==
    LET ocr_text == img_data.ocr_text
        extracted_fields == img_data.extracted_fields
        label == img_data.label
    IN IF label \in RoleLabels
       THEN [texts |-> [acc.texts EXCEPT ![TextArgument(label)] = ocr_text],
             google_metadata |->
                 StoreFields(acc.google_metadata, FieldsKey(label), extracted_fields)]
       ELSE IF label \in {"certificate_attestation", "attestation_label"}
               /\ ocr_text # <<>>
       THEN [texts |-> [acc.texts EXCEPT !["certificate_ocr"] = ocr_text],
             google_metadata |->
                 StoreFields(acc.google_metadata, "certificate_fields",
                             extracted_fields)]
       ELSE acc

RECURSIVE StructuringLoop(_, _)
StructuringLoop(acc, processed_images) ==
    IF processed_images = <<>>
    THEN acc
    ELSE StructuringLoop(StructuringStep(acc, Head(processed_images)),
                         Tail(processed_images))

\* gemini_structuring: the arguments of the call of structure_with_gemini
gemini_structuring(processed_images) ==
    LET acc == StructuringLoop([texts |-> [a \in TextArguments |-> <<>>],
                                google_metadata |-> EmptyDict],
                               processed_images)
    IN [texts |-> acc.texts,
        google_metadata |-> acc.google_metadata,
        resnet_label |-> [i \in DOMAIN processed_images |->
                              processed_images[i].label]]

GstUnset ==
    [texts |-> [a \in TextArguments |-> <<>>], google_metadata |-> EmptyDict,
     resnet_label |-> <<>>]

\* The pages perform_ocr can hand over: page i carries its own text, or an
\* empty one, and its own fields, or none
ProcessedPages(n) ==
    {pages \in [1..n -> [label : StructLabels,
                         ocr_text : {<<>>} \cup {PageText(i) : i \in 1..n},
                         extracted_fields : {EmptyDict} \cup {PageFields(i) : i \in 1..n}]] :
        \A i \in 1..n :
            /\ pages[i].ocr_text \in {<<>>, PageText(i)}
            /\ pages[i].extracted_fields \in {EmptyDict, PageFields(i)}
            /\ pages[i].extracted_fields # EmptyDict => pages[i].ocr_text # <<>>}

GstInit ==
    /\ gst_processed \in UNION {ProcessedPages(n) : n \in 1..MaxStructPages}
    /\ gst_result = GstUnset
    /\ gst_pc = "start"

GstIdle ==
    /\ gst_processed = <<>>
    /\ gst_result = GstUnset
    /\ gst_pc = "idle"

\* One call of gemini_structuring up to the call of structure_with_gemini
GeminiStructuring ==
    /\ gst_pc = "start"
    /\ gst_result' = gemini_structuring(gst_processed)
    /\ gst_pc' = "done"
    /\ UNCHANGED gst_processed
    /\ UNCHANGED notGstVars

GstNext == GeminiStructuring

\* ------------------------------------------------------------ save_results
\* Labels of the pages handed to save_results in this component
SaveLabels == {"passport_1", "certificate", "attestation_label"}

\* Characters of a "Full Name" string: the blank and two letters
NameChars == {" ", "J", "D"}

\* The "Full Name" entry of final_structured: absent, null, or a string
FullNameEntries ==
    {[kind |-> "missing", chars |-> <<>>], [kind |-> "null", chars |-> <<>>]}
        \cup {[kind |-> "str", chars |-> s] : s \in SeqsUpTo(NameChars, MaxNameLen)}

\* final_structured.get("Full Name", "")
GetFullName(entry) ==
    IF entry.kind = "missing" THEN [kind |-> "str", chars |-> <<>>] ELSE entry

\* Truth value of full_name: None and "" are false
Truthy(full_name) == full_name.kind = "str" /\ full_name.chars # <<>>

\* End of the run of non-blank characters that starts the string
TokenEnd(s) ==
    CHOOSE e \in 1..(Len(s) + 1) :
        /\ \A i \in 1..(e - 1) : s[i] # " "
        /\ e <= Len(s) => s[e] = " "

\* str.split(): the maximal runs of non-blank characters
RECURSIVE split(_)
split(s) ==
    IF s = <<>> THEN <<>>
    ELSE IF Head(s) = " " THEN split(Tail(s))
    ELSE <<SubSeq(s, 1, TokenEnd(s) - 1)>> \o split(SubSeq(s, TokenEnd(s), Len(s)))

\* The name used when full_name is false
Unknown == <<"Unknown">>

\* full_name.split()[0] raises IndexError when the list is empty
FirstNameRaises(full_name) == Truthy(full_name) /\ split(full_name.chars) = <<>>

\* full_name.split()[0] if full_name else "Unknown"
FirstName(full_name) ==
    IF Truthy(full_name) THEN split(full_name.chars)[1] ELSE Unknown

\* f"{first_name}_{doc_type}"
BaseName(first_name, doc_type) == <<first_name, doc_type>>

\* os.path.join(output_dir, base_name + ext)
OutputFile(base_name, ext) == [base |-> base_name, ext |-> ext]

\* save_outputs(jpg_path, ...): the files it writes for the page
save_outputs(page, base_name) ==
    [f \in {OutputFile(base_name, ".jpg"), OutputFile(base_name, ".json")} |->
        page.file]

SavInit ==
    /\ sav_processed \in
           UNION {[1..n -> [file : 1..n, label : SaveLabels]] : n \in 1..MaxSavedPages}
    /\ \A i \in DOMAIN sav_processed : sav_processed[i].file = i
    /\ sav_full_name \in FullNameEntries
    /\ sav_dir = EmptyDict
    /\ sav_overwritten = {}
    /\ sav_index = 1
    /\ sav_pc = "master"

SavIdle ==
    /\ sav_processed = <<>>
    /\ sav_full_name = [kind |-> "missing", chars |-> <<>>]
    /\ sav_dir = EmptyDict
    /\ sav_overwritten = {}
    /\ sav_index = 1
    /\ sav_pc = "idle"

\* The master text file {first_name}_COMPLETE_DETAILS.txt
WriteMasterFile ==
    /\ sav_pc = "master"
    /\ LET full_name == GetFullName(sav_full_name)
       IN IF FirstNameRaises(full_name)
          THEN /\ sav_pc' = "raised"
               /\ UNCHANGED sav_dir
          ELSE /\ sav_dir' = DictUpdate(sav_dir,
                      [f \in {OutputFile(<<FirstName(full_name), "COMPLETE_DETAILS">>,
                                         ".txt")} |-> 0])
               /\ sav_pc' = "save"
    /\ UNCHANGED <<sav_processed, sav_full_name, sav_overwritten, sav_index>>
    /\ UNCHANGED notSavVars

\* First loop: save_outputs for one page
SavePage ==
    /\ sav_pc = "save"
    /\ sav_index <= Len(sav_processed)
    /\ LET img_data == sav_processed[sav_index]
           base == BaseName(FirstName(GetFullName(sav_full_name)), img_data.label)
           written == save_outputs(img_data, base)
       IN /\ sav_dir' = DictUpdate(sav_dir, written)
          /\ sav_overwritten' =
                 sav_overwritten \cup ((DOMAIN written) \cap (DOMAIN sav_dir))
    /\ sav_index' = sav_index + 1
    /\ UNCHANGED <<sav_processed, sav_full_name, sav_pc>>
    /\ UNCHANGED notSavVars

\* The first loop has ended; the second loop compresses the saved images in
\* place
CompressSaved ==
    /\ sav_pc = "save"
    /\ sav_index > Len(sav_processed)
    /\ sav_pc' = "done"
    /\ UNCHANGED <<sav_processed, sav_full_name, sav_dir, sav_overwritten,
                   sav_index>>
    /\ UNCHANGED notSavVars

SavNext == WriteMasterFile \/ SavePage \/ CompressSaved

\* --------------------------------------- DocumentAIProcessor on one text
\* Tokens of the texts handed to the processor in this component
DocWords == Words \cup {"2020", "Attested", "AL"}

\* The keyword lists of get_document_type, as token sequences
TypeKeywords(type) ==
    CASE type = "passport" ->
             {<<"passport">>, <<"passport", "no">>, <<"passport", "number">>}
      [] type = "emirates_id" ->
             {<<"emirates", "id">>, <<"emirates", "identity">>, <<"uae", "id">>}
      [] type = "attestation_certificate" ->
             {<<"attestation">>, <<"attested">>, <<"ministry">>, <<"government">>}
      [] type = "certificate" ->
             {<<"certificate">>, <<"degree">>, <<"diploma">>, <<"university">>,
              <<"college">>}

DocInit ==
    /\ doc_text \in SeqsUpTo(DocWords, MaxDocLen)
    /\ doc_call = "none"
    /\ doc_document_type = "unset"
    /\ doc_fields = EmptyDict
    /\ doc_pc = "start"

DocIdle ==
    /\ doc_text = <<>>
    /\ doc_call = "none"
    /\ doc_document_type = "unset"
    /\ doc_fields = EmptyDict
    /\ doc_pc = "idle"

\* One call of get_document_type(ocr_text)
GetDocumentType ==
    /\ doc_pc = "start"
    /\ doc_call' = "get_document_type"
    /\ doc_document_type' = get_document_type(doc_text)
    /\ doc_pc' = "done"
    /\ UNCHANGED <<doc_text, doc_fields>>
    /\ UNCHANGED notDocVars

\* One call of extract_fields_by_document_type(ocr_text)
ExtractFieldsByDocumentType ==
    /\ doc_pc = "start"
    /\ doc_call' = "extract_fields_by_document_type"
    /\ doc_document_type' = get_document_type(doc_text)
    /\ doc_fields' = extract_fields_by_document_type(doc_text)
    /\ doc_pc' = "done"
    /\ UNCHANGED doc_text
    /\ UNCHANGED notDocVars

\* One call of extract_specific_fields(ocr_text)
ExtractSpecificFields ==
    /\ doc_pc = "start"
    /\ doc_call' = "extract_specific_fields"
    /\ doc_fields' = extract_specific_fields(doc_text)
    /\ doc_pc' = "done"
    /\ UNCHANGED <<doc_text, doc_document_type>>
    /\ UNCHANGED notDocVars

\* One call of extract_certificate_fields(ocr_text)
ExtractCertificateFields ==
    /\ doc_pc = "start"
    /\ doc_call' = "extract_certificate_fields"
    /\ doc_fields' = extract_certificate_fields(doc_text)
    /\ doc_pc' = "done"
    /\ UNCHANGED <<doc_text, doc_document_type>>
    /\ UNCHANGED notDocVars

DocNext ==
    \/ GetDocumentType
    \/ ExtractFieldsByDocumentType
    \/ ExtractSpecificFields
    \/ ExtractCertificateFields

\* ------------------------------------------------ detect_service_from_email
\* Service names, as tokens; "--" holds no word character
ServiceNames ==
    {<<"Work", "Permit", "Cancellation">>, <<"New", "Work", "Permit">>,
     <<"Work", "Work">>, <<"--">>}

\* Tokens of the email texts
EmailWords == {"work", "Permit", "cancel"}

\* set(re.findall(r"\w+", text.lower()))
WordSet(text) == {LowerWord(text[i]) : i \in {j \in DOMAIN text : text[j] # "--"}}

UnknownService == <<"Unknown", "Service">>

\* The loop `for service in services` of _simple_keyword_match; the score
\* shared/total is kept as the pair num/den
RECURSIVE KeywordMatchLoop(_, _, _)
KeywordMatchLoop(best, text_words, services) ==
    IF services = <<>> THEN best
    ELSE LET service == Head(services)
             service_words == WordSet(service)
             shared == Cardinality(service_words \cap text_words)
             total == Cardinality(service_words)
         IN IF service_words = {}
            THEN KeywordMatchLoop(best, text_words, Tail(services))
            ELSE IF shared * best.den > best.num * total
            THEN KeywordMatchLoop([service |-> service, num |-> shared, den |-> total],
                                  text_words, Tail(services))
            ELSE KeywordMatchLoop(best, text_words, Tail(services))

_simple_keyword_match(text, services) ==
    LET best == KeywordMatchLoop([service |-> UnknownService, num |-> 0, den |-> 1],
                                 WordSet(text), services)
    IN IF best.num > 0 THEN best.service ELSE UnknownService

\* What model.generate_content may do: raise, answer nothing, or answer a
\* text
GeminiReplies ==
    {[kind |-> "raise"], [kind |-> "empty"]}
        \cup {[kind |-> "text", text |-> t] : t \in ServiceNames \cup {<<"Sure">>}}

\* detect_service_from_email(email_text, services)
detect_service_from_email(email_text, services, fetched, api_key, gemini) ==
    LET used == IF services # <<>> THEN services ELSE fetched
    IN IF api_key /\ gemini.kind = "text"
       THEN gemini.text
       ELSE _simple_keyword_match(email_text, used)

SvcInit ==
    /\ svc_email \in SeqsUpTo(EmailWords, MaxEmailLen)
    /\ svc_services \in SeqsUpTo(ServiceNames, MaxServices)
    /\ svc_fetched \in {<< <<"Work", "Permit", "Cancellation">> >>}
    /\ svc_api_key \in BOOLEAN
    /\ svc_gemini \in GeminiReplies
    /\ svc_api_key = FALSE => svc_gemini = [kind |-> "raise"]
    /\ svc_result = <<>>
    /\ svc_pc = "start"

SvcIdle ==
    /\ svc_email = <<>>
    /\ svc_services = <<>>
    /\ svc_fetched = <<>>
    /\ svc_api_key = FALSE
    /\ svc_gemini = [kind |-> "raise"]
    /\ svc_result = <<>>
    /\ svc_pc = "idle"

\* One call of detect_service_from_email
DetectServiceFromEmail ==
    /\ svc_pc = "start"
    /\ svc_result' = detect_service_from_email(svc_email, svc_services, svc_fetched,
                                               svc_api_key, svc_gemini)
    /\ svc_pc' = "done"
    /\ UNCHANGED <<svc_email, svc_services, svc_fetched, svc_api_key, svc_gemini>>
    /\ UNCHANGED notSvcVars

SvcNext == DetectServiceFromEmail

\* ---------------------------------------------------- run_google_vision_ocr
\* The image given to run_google_vision_ocr, and the file
\* <base>_preprocessed.jpg written by preprocess_image_for_ocr
ImagePath == "image_path"
PreprocessedFile == "image_path_preprocessed"

\* Text lengths on both sides of the limit of 100 characters
TextLens == {0, 99, 100, 101}

\* _perform_ocr(path): the text Vision recognizes in the file
_perform_ocr(path, text_len) == [ocr_text_of |-> path, len |-> text_len[path]]

\* len(ocr_result["ocr_text"]) < 100 or "passport" in image_path.lower()
NeedsEnhancedPass(first_pass, passport_path) ==
    first_pass.len < 100 \/ passport_path

\* preprocess_image_for_ocr(image_path): the path it returns
preprocess_image_for_ocr(readable) ==
    IF readable THEN PreprocessedFile ELSE ImagePath

VisUnset == [ocr_text_of |-> "none", len |-> 0]

VisInit ==
    /\ vis_passport_path \in BOOLEAN
    /\ vis_readable \in BOOLEAN
    /\ vis_text_len \in [{ImagePath, PreprocessedFile} -> TextLens]
    /\ vis_files = {ImagePath}
    /\ vis_preprocessed_path = "none"
    /\ vis_passes = <<>>
    /\ vis_result = VisUnset
    /\ vis_pc = "first"

VisIdle ==
    /\ vis_passport_path = FALSE
    /\ vis_readable = FALSE
    /\ vis_text_len = [f \in {ImagePath, PreprocessedFile} |-> 0]
    /\ vis_files = {}
    /\ vis_preprocessed_path = "none"
    /\ vis_passes = <<>>
    /\ vis_result = VisUnset
    /\ vis_pc = "idle"

\* ocr_result = _perform_ocr(image_path) and the test for a second pass
VisionFirstPass ==
    /\ vis_pc = "first"
    /\ vis_passes' = Append(vis_passes, ImagePath)
    /\ vis_result' = _perform_ocr(ImagePath, vis_text_len)
    /\ vis_pc' = IF NeedsEnhancedPass(vis_result', vis_passport_path)
                 THEN "preprocess" ELSE "return"
    /\ UNCHANGED <<vis_passport_path, vis_readable, vis_text_len, vis_files,
                   vis_preprocessed_path>>
    /\ UNCHANGED notVisVars

\* preprocessed_path = preprocess_image_for_ocr(image_path)
VisionPreprocess ==
    /\ vis_pc = "preprocess"
    /\ vis_preprocessed_path' = preprocess_image_for_ocr(vis_readable)
    /\ vis_files' = vis_files \cup {vis_preprocessed_path'}
    /\ vis_pc' = "second"
    /\ UNCHANGED <<vis_passport_path, vis_readable, vis_text_len, vis_passes,
                   vis_result>>
    /\ UNCHANGED notVisVars

\* enhanced_result = _perform_ocr(preprocessed_path); the longer text is kept
VisionSecondPass ==
    /\ vis_pc = "second"
    /\ vis_passes' = Append(vis_passes, vis_preprocessed_path)
    /\ LET enhanced_result == _perform_ocr(vis_preprocessed_path, vis_text_len)
       IN vis_result' = IF enhanced_result.len > vis_result.len
                        THEN enhanced_result ELSE vis_result
    /\ vis_pc' = "cleanup"
    /\ UNCHANGED <<vis_passport_path, vis_readable, vis_text_len, vis_files,
                   vis_preprocessed_path>>
    /\ UNCHANGED notVisVars

\* if os.path.exists(preprocessed_path): os.remove(preprocessed_path)
VisionCleanup ==
    /\ vis_pc = "cleanup"
    /\ vis_files' = vis_files \ {vis_preprocessed_path}
    /\ vis_pc' = "return"
    /\ UNCHANGED <<vis_passport_path, vis_readable, vis_text_len,
                   vis_preprocessed_path, vis_passes, vis_result>>
    /\ UNCHANGED notVisVars

\* return ocr_result
VisionReturn ==
    /\ vis_pc = "return"
    /\ vis_pc' = "done"
    /\ UNCHANGED <<vis_passport_path, vis_readable, vis_text_len, vis_files,
                   vis_preprocessed_path, vis_passes, vis_result>>
    /\ UNCHANGED notVisVars

VisNext ==
    \/ VisionFirstPass
    \/ VisionPreprocess
    \/ VisionSecondPass
    \/ VisionCleanup
    \/ VisionReturn

\* ------------------------------------------------------ continuous_pipeline
\* Where the loop goes on when run_full_pipeline raises an Exception without
\* a handler around the call: continuous_pipeline is left.
AfterCycleError_propagates == "stopped"

\* `except Exception as e:` prints the error and the loop body goes on
AfterCycleError == "after"

MonInit ==
    /\ mon_running = TRUE
    /\ mon_signalled = FALSE
    /\ mon_cycle_count = 0
    /\ mon_outcomes = <<>>
    /\ mon_wait_left = 0
    /\ mon_pc = "test"

MonIdle ==
    /\ mon_running = FALSE
    /\ mon_signalled = FALSE
    /\ mon_cycle_count = 0
    /\ mon_outcomes = <<>>
    /\ mon_wait_left = 0
    /\ mon_pc = "idle"

\* signal_handler(signum, frame), run on SIGINT or SIGTERM at any point of
\* the loop
SignalHandler ==
    /\ mon_pc \in {"test", "cycle", "after", "wait"}
    /\ mon_running' = FALSE
    /\ mon_signalled' = TRUE
    /\ UNCHANGED <<mon_cycle_count, mon_outcomes, mon_wait_left, mon_pc>>
    /\ UNCHANGED notMonVars

\* `while running:` is true: cycle_count += 1 and the cycle starts
StartCycle ==
    /\ mon_pc = "test"
    /\ mon_running
    /\ mon_cycle_count < MaxCycles
    /\ mon_cycle_count' = mon_cycle_count + 1
    /\ mon_pc' = "cycle"
    /\ UNCHANGED <<mon_running, mon_signalled, mon_outcomes, mon_wait_left>>
    /\ UNCHANGED notMonVars

\* `while running:` is false: "Pipeline stopped gracefully."
LeaveLoop ==
    /\ mon_pc = "test"
    /\ ~mon_running
    /\ mon_pc' = "stopped"
    /\ UNCHANGED <<mon_running, mon_signalled, mon_cycle_count, mon_outcomes,
                   mon_wait_left>>
    /\ UNCHANGED notMonVars

\* run_full_pipeline() returns
CycleReturns ==
    /\ mon_pc = "cycle"
    /\ mon_outcomes' = Append(mon_outcomes, "ok")
    /\ mon_pc' = "after"
    /\ UNCHANGED <<mon_running, mon_signalled, mon_cycle_count, mon_wait_left>>
    /\ UNCHANGED notMonVars

\* run_full_pipeline() raises an Exception
CycleRaises ==
    /\ mon_pc = "cycle"
    /\ mon_outcomes' = Append(mon_outcomes, "raised")
    /\ mon_pc' = AfterCycleError
    /\ UNCHANGED <<mon_running, mon_signalled, mon_cycle_count, mon_wait_left>>
    /\ UNCHANGED notMonVars

\* `if running:` after the cycle: the waiting loop starts, or is skipped
AfterCycle ==
    /\ mon_pc = "after"
    /\ IF mon_running
       THEN /\ mon_wait_left' = MaxWait
            /\ mon_pc' = "wait"
       ELSE /\ mon_pc' = "test"
            /\ UNCHANGED mon_wait_left
    /\ UNCHANGED <<mon_running, mon_signalled, mon_cycle_count, mon_outcomes>>
    /\ UNCHANGED notMonVars

\* One iteration of `for _ in range(check_interval)`: time.sleep(1)
WaitTick ==
    /\ mon_pc = "wait"
    /\ mon_wait_left > 0
    /\ mon_running
    /\ mon_wait_left' = mon_wait_left - 1
    /\ UNCHANGED <<mon_running, mon_signalled, mon_cycle_count, mon_outcomes,
                   mon_pc>>
    /\ UNCHANGED notMonVars

\* The waiting loop ends: `if not running: break`, or the range is used up
WaitEnds ==
    /\ mon_pc = "wait"
    /\ mon_wait_left = 0 \/ ~mon_running
    /\ mon_wait_left' = 0
    /\ mon_pc' = "test"
    /\ UNCHANGED <<mon_running, mon_signalled, mon_cycle_count, mon_outcomes>>
    /\ UNCHANGED notMonVars

\* The steps of the loop itself, without the signal
MonLoopStep ==
    \/ StartCycle
    \/ LeaveLoop
    \/ CycleReturns
    \/ CycleRaises
    \/ AfterCycle
    \/ WaitTick
    \/ WaitEnds

MonNext ==
    \/ SignalHandler
    \/ StartCycle
    \/ LeaveLoop
    \/ CycleReturns
    \/ CycleRaises
    \/ AfterCycle
    \/ WaitTick
    \/ WaitEnds

\* ---------------------------------------------------------- specifications
\* Initial states: one component is about to run, the others are idle
InitOcr == OcrInit /\ CropIdle /\ AttIdle /\ ClsIdle /\ RotIdle
    /\ StoIdle
    /\ MicIdle
    /\ PipeIdle
    /\ GuiIdle
    /\ GstIdle
    /\ SavIdle
    /\ DocIdle
    /\ SvcIdle
    /\ VisIdle
    /\ MonIdle

InitCrop == OcrIdle /\ CropInit /\ AttIdle /\ ClsIdle /\ RotIdle
    /\ StoIdle
    /\ MicIdle
    /\ PipeIdle
    /\ GuiIdle
    /\ GstIdle
    /\ SavIdle
    /\ DocIdle
    /\ SvcIdle
    /\ VisIdle
    /\ MonIdle

InitAttest == OcrIdle /\ CropIdle /\ AttInit /\ ClsIdle /\ RotIdle
    /\ StoIdle
    /\ MicIdle
    /\ PipeIdle
    /\ GuiIdle
    /\ GstIdle
    /\ SavIdle
    /\ DocIdle
    /\ SvcIdle
    /\ VisIdle
    /\ MonIdle

InitClassify == OcrIdle /\ CropIdle /\ AttIdle /\ ClsInit /\ RotIdle
    /\ StoIdle
    /\ MicIdle
    /\ PipeIdle
    /\ GuiIdle
    /\ GstIdle
    /\ SavIdle
    /\ DocIdle
    /\ SvcIdle
    /\ VisIdle
    /\ MonIdle

InitRotate == OcrIdle /\ CropIdle /\ AttIdle /\ ClsIdle /\ RotInit
    /\ StoIdle
    /\ MicIdle
    /\ PipeIdle
    /\ GuiIdle
    /\ GstIdle
    /\ SavIdle
    /\ DocIdle
    /\ SvcIdle
    /\ VisIdle
    /\ MonIdle

\* The orientation stage seen from both sides: a run of classify_images, or
\* a call of rotate_image_if_needed_google_ai
InitOrientation ==
    /\ OcrIdle /\ CropIdle /\ AttIdle
    /\ \/ ClsInit /\ RotIdle
       \/ ClsIdle /\ RotInit
    /\ StoIdle
    /\ MicIdle
    /\ PipeIdle
    /\ GuiIdle
    /\ GstIdle
    /\ SavIdle
    /\ DocIdle
    /\ SvcIdle
    /\ VisIdle
    /\ MonIdle

OrientationNext == ClsNext \/ RotNext

SpecOcr == InitOcr /\ [][OcrNext]_vars

SpecCrop == InitCrop /\ [][CropNext]_vars

SpecAttest == InitAttest /\ [][AttNext]_vars

SpecClassify == InitClassify /\ [][ClsNext]_vars

SpecRotate == InitRotate /\ [][RotNext]_vars

SpecOrientation == InitOrientation /\ [][OrientationNext]_vars

InitSimpleOrientation ==
    /\ OcrIdle /\ CropIdle /\ AttIdle /\ ClsIdle /\ RotIdle
    /\ StoInit
    /\ MicIdle
    /\ PipeIdle
    /\ GuiIdle
    /\ GstIdle
    /\ SavIdle
    /\ DocIdle
    /\ SvcIdle
    /\ VisIdle
    /\ MonIdle

SpecSimpleOrientation == InitSimpleOrientation /\ [][StoNext]_vars

InitMainClassify ==
    /\ OcrIdle /\ CropIdle /\ AttIdle /\ ClsIdle /\ RotIdle /\ StoIdle
    /\ MicInit
    /\ PipeIdle
    /\ GuiIdle
    /\ GstIdle
    /\ SavIdle
    /\ DocIdle
    /\ SvcIdle
    /\ VisIdle
    /\ MonIdle

SpecMainClassify == InitMainClassify /\ [][MicNext]_vars

InitPipeline ==
    /\ OcrIdle /\ CropIdle /\ AttIdle /\ ClsIdle /\ RotIdle /\ StoIdle
    /\ MicIdle
    /\ PipeInit
    /\ GuiIdle
    /\ GstIdle
    /\ SavIdle
    /\ DocIdle
    /\ SvcIdle
    /\ VisIdle
    /\ MonIdle

SpecPipeline == InitPipeline /\ [][PipeNext]_vars

InitGui ==
    /\ OcrIdle /\ CropIdle /\ AttIdle /\ ClsIdle /\ RotIdle /\ StoIdle
    /\ MicIdle /\ PipeIdle
    /\ GuiInit
    /\ GstIdle
    /\ SavIdle
    /\ DocIdle
    /\ SvcIdle
    /\ VisIdle
    /\ MonIdle

SpecGui == InitGui /\ [][GuiNext]_vars

InitStructuring ==
    /\ OcrIdle /\ CropIdle /\ AttIdle /\ ClsIdle /\ RotIdle /\ StoIdle
    /\ MicIdle /\ PipeIdle /\ GuiIdle
    /\ GstInit
    /\ SavIdle
    /\ DocIdle
    /\ SvcIdle
    /\ VisIdle
    /\ MonIdle

SpecStructuring == InitStructuring /\ [][GstNext]_vars

InitSave ==
    /\ OcrIdle /\ CropIdle /\ AttIdle /\ ClsIdle /\ RotIdle /\ StoIdle
    /\ MicIdle /\ PipeIdle /\ GuiIdle /\ GstIdle
    /\ SavInit
    /\ DocIdle
    /\ SvcIdle
    /\ VisIdle
    /\ MonIdle

SpecSave == InitSave /\ [][SavNext]_vars

InitExtract == OcrIdle /\ CropIdle /\ AttIdle /\ ClsIdle /\ RotIdle
    /\ StoIdle
    /\ MicIdle
    /\ PipeIdle
    /\ GuiIdle
    /\ GstIdle
    /\ SavIdle
    /\ DocInit
    /\ SvcIdle
    /\ VisIdle
    /\ MonIdle

SpecExtract == InitExtract /\ [][DocNext]_vars

InitService == OcrIdle /\ CropIdle /\ AttIdle /\ ClsIdle /\ RotIdle
    /\ StoIdle
    /\ MicIdle
    /\ PipeIdle
    /\ GuiIdle
    /\ GstIdle
    /\ SavIdle
    /\ DocIdle
    /\ SvcInit
    /\ VisIdle
    /\ MonIdle

SpecService == InitService /\ [][SvcNext]_vars

InitVision == OcrIdle /\ CropIdle /\ AttIdle /\ ClsIdle /\ RotIdle
    /\ StoIdle
    /\ MicIdle
    /\ PipeIdle
    /\ GuiIdle
    /\ GstIdle
    /\ SavIdle
    /\ DocIdle
    /\ SvcIdle
    /\ VisInit
    /\ MonIdle

SpecVision == InitVision /\ [][VisNext]_vars

InitMonitor == OcrIdle /\ CropIdle /\ AttIdle /\ ClsIdle /\ RotIdle
    /\ StoIdle
    /\ MicIdle
    /\ PipeIdle
    /\ GuiIdle
    /\ GstIdle
    /\ SavIdle
    /\ DocIdle
    /\ SvcIdle
    /\ VisIdle
    /\ MonInit

\* The loop runs in the one thread of the process, which keeps running, and
\* every call of run_full_pipeline comes to an end; a signal may never come
SpecMonitor == InitMonitor /\ [][MonNext]_vars /\ WF_vars(MonLoopStep)

\* ---------------------------------------------------- claims on SpecOcr
\* The primary engine did not produce a result
PrimaryUnavailable ==
    \/ ~DOCUMENT_AI_AVAILABLE
    \/ ~docai_enabled
    \/ docai_behaviour.kind \in {"error", "raise"}

\* The primary engine produced a result
PrimaryOk ==
    DOCUMENT_AI_AVAILABLE /\ docai_enabled /\ docai_behaviour.kind = "ok"

\* C1: when the primary engine is unavailable (not importable, not enabled,
\* error result, or raising) run_enhanced_ocr returns the text produced by
\* run_google_vision_ocr, tagged ocr_method "google_vision".
C1_FallbackToVision ==
    (ocr_pc = "done" /\ PrimaryUnavailable /\ vision_behaviour.kind = "ok") =>
        /\ ~ocr_raised
        /\ ocr_result.ocr_method = "google_vision"
        /\ ocr_result.ocr_text = vision_behaviour.ocr_text

\* C2: when the primary engine succeeds with a confidence below 0.3 the
\* result carries the secondary engine's text, tagged "google_vision", and
\* keeps the confidence reported by the primary engine.
C2_LowConfidenceFallback ==
    (ocr_pc = "done" /\ PrimaryOk /\ docai_behaviour.confidence < 3
        /\ vision_behaviour.kind = "ok") =>
        /\ ~ocr_raised
        /\ ocr_result.ocr_method = "google_vision"
        /\ ocr_result.ocr_text = vision_behaviour.ocr_text
        /\ ocr_result.confidence = docai_behaviour.confidence

\* C3: when the primary engine succeeds with a confidence of at least 0.3,
\* the result is the primary engine's text with the document type and the
\* fields extracted from that text, tagged "document_ai", and the secondary
\* engine is not invoked.
C3_PrimaryResultKept ==
    (ocr_pc = "done" /\ PrimaryOk /\ docai_behaviour.confidence >= 3) =>
        /\ ~ocr_raised
        /\ ocr_result.ocr_text = docai_behaviour.full_text
        /\ ocr_result.document_type = get_document_type(docai_behaviour.full_text)
        /\ ocr_result.extracted_fields =
               extract_fields_by_document_type(docai_behaviour.full_text)
        /\ ocr_result.confidence = docai_behaviour.confidence
        /\ ocr_result.ocr_method = "document_ai"
        /\ vision_calls = 0

\* A high-confidence primary result with a recognized type and a field
C3_Witness ==
    /\ ocr_pc = "done"
    /\ PrimaryOk
    /\ docai_behaviour.confidence = 9
    /\ ocr_result.ocr_method = "document_ai"
    /\ ocr_result.document_type = "certificate"
    /\ "Degree/Qualification" \in DOMAIN ocr_result.extracted_fields

\* C4: run_enhanced_ocr never raises, and when no engine yields a result it
\* returns empty text, confidence 0.0, no extracted fields and a tag that
\* differs from the tag of every successful engine.
C4_NeverRaisesUnavailable ==
    ocr_pc = "done" =>
        /\ ~ocr_raised
        /\ (PrimaryUnavailable /\ (vision_calls = 0 \/ vision_behaviour.kind = "raise")) =>
                    /\ ocr_result.ocr_text = <<>>
              /\ ocr_result.confidence = 0
              /\ ocr_result.extracted_fields = EmptyDict
              /\ ocr_result.ocr_method \notin {"document_ai", "google_vision"}

\* The primary engine raised and the unavailable result came back
C4_Witness ==
    /\ ocr_pc = "done"
    /\ DOCUMENT_AI_AVAILABLE /\ docai_enabled
    /\ docai_behaviour.kind = "raise"
    /\ ~ocr_raised
    /\ ocr_result.ocr_method = "document_ai_unavailable"

\* --------------------------------------------------- claims on SpecCrop
\* C5: when the detector returns several boxes of which at least one has a
\* label containing "attestation", run_yolo_crop crops exactly the bounds of
\* an attestation-labelled box, wherever that box stands in the list.
C5_CropsAttestationBox ==
    (/\ crop_pc = "done"
     /\ image_readable
     /\ Len(yolo_boxes) >= 2
     /\ \E i \in DOMAIN yolo_boxes : IsAttestationLabel(yolo_boxes[i].label)) =>
        /\ crop_result.kind = "ok"
        /\ \E i \in DOMAIN yolo_boxes :
              /\ IsAttestationLabel(yolo_boxes[i].label)
              /\ crop_result.cropped = yolo_boxes[i].xyxy

\* -------------------------------------------------- claims on SpecAttest
\* The candidate passed under key k is a string (the key is present and its
\* value is not None)
HasCandidate(k) ==
    k \in DOMAIN extracted_numbers /\ extracted_numbers[k] # NoneStr

\* C7: 'Attestation Number 1' is the candidate with its leading zeros
\* stripped exactly when the stripped string is all digits and 5 to 15
\* characters long, and null otherwise, whatever the recognized text holds.
C7_Number1LengthRule ==
    (att_pc = "done" /\ HasCandidate("Attestation Number 1")) =>
        LET stripped == LStripZeros(extracted_numbers["Attestation Number 1"])
        IN validated["Attestation Number 1"] =
              IF IsDigit(stripped) /\ Len(stripped) >= 5 /\ Len(stripped) <= 15
              THEN stripped ELSE NoneStr

\* A candidate with a leading zero that is absent from the recognized text
\* and is returned stripped
C7_Witness ==
    /\ att_pc = "done"
    /\ HasCandidate("Attestation Number 1")
    /\ StartsWith(extracted_numbers["Attestation Number 1"], <<"0">>)
    /\ ~IsSubstring(LStripZeros(extracted_numbers["Attestation Number 1"]),
                    NormalizeDigits(att_ocr_text))
    /\ validated["Attestation Number 1"] =
           LStripZeros(extracted_numbers["Attestation Number 1"])
    /\ Len(validated["Attestation Number 1"]) = 15

\* C8: 'Attestation Number 2' is null when the stripped candidate is not an
\* all-digit string of length 6 or 7, or when it starts with "784" and does
\* not occur in the normalized recognized text; otherwise it is the stripped
\* candidate.
C8_Number2Rule ==
    (att_pc = "done" /\ HasCandidate("Attestation Number 2")) =>
        LET stripped == LStripZeros(extracted_numbers["Attestation Number 2"])
            wellFormed == IsDigit(stripped) /\ Len(stripped) \in {6, 7}
            misattributed ==
                /\ StartsWith(stripped, <<"7", "8", "4">>)
                /\ ~IsSubstring(stripped, NormalizeDigits(att_ocr_text))
        IN validated["Attestation Number 2"] =
              IF ~wellFormed \/ misattributed THEN NoneStr ELSE stripped

\* A well-formed candidate starting with 784 that is absent from the
\* recognized text and is rejected
C8_Witness ==
    /\ att_pc = "done"
    /\ HasCandidate("Attestation Number 2")
    /\ LET stripped == LStripZeros(extracted_numbers["Attestation Number 2"])
       IN /\ IsDigit(stripped) /\ Len(stripped) = 7
          /\ StartsWith(stripped, <<"7", "8", "4">>)
          /\ ~IsSubstring(stripped, NormalizeDigits(att_ocr_text))
    /\ validated["Attestation Number 2"] = NoneStr

\* C9: an input written with Arabic-Indic digit glyphs gets the same result
\* as the same input written with Western digits.
C9_NumeralSystemIndependent ==
    att_pc = "done" =>
        [k \in AttKeys |-> NormalizeDigits(validated[k])] =
            validate_attestation_numbers(
                NormalizeDigits(att_ocr_text),
                [k \in DOMAIN extracted_numbers |->
                    NormalizeDigits(extracted_numbers[k])])

\* ------------------------------------------------ claims on SpecClassify
\* C6: the pairing pass changes a page's label if and only if the batch has
\* a "certificate" page, has no "certificate_attestation" or
\* "attestation_label" page, and the page is labelled "emirates_id",
\* "emirates_id_2" or "unknown"; every such page becomes "attestation_label",
\* and every other page keeps its label; all pages keep path and position.
C6_ReconciliationRule ==
    [][(cls_pc = "classify" /\ cls_pc' = "rotate") =>
        LET before == classified_images
            after == classified_images'
            pairingMissing ==
                /\ \E j \in DOMAIN before : before[j].label = "certificate"
                /\ \A j \in DOMAIN before :
                      before[j].label \notin {"certificate_attestation", "attestation_label"}
        IN /\ Len(after) = Len(before)
           /\ \A i \in DOMAIN before :
                 /\ after[i].path = before[i].path
                 /\ after[i].filename = before[i].filename
                 /\ (after[i].label # before[i].label) <=>
                       (pairingMissing /\
                        before[i].label \in {"emirates_id", "emirates_id_2", "unknown"})
                 /\ (after[i].label # before[i].label) =>
                       after[i].label = "attestation_label"]_vars

\* Two pages, the second one not the first eligible page, were retargeted
C6_Witness ==
    /\ cls_pc = "rotate"
    /\ Len(resnet_labelled) = 3
    /\ resnet_labelled[1].label = "emirates_id"
    /\ resnet_labelled[2].label = "certificate"
    /\ resnet_labelled[3].label = "unknown"
    /\ classified_images[1].label = "attestation_label"
    /\ classified_images[2].label = "certificate"
    /\ classified_images[3].label = "attestation_label"

\* ---------------------------------------------- claims on SpecOrientation
\* C10: for a label outside {passport_1, passport_2, personal_photo,
\* certificate} rotate_image_if_needed_google_ai returns the path it was
\* given, without a call of the judgment service and without writing a file;
\* and classify_images never hands such a page to rotate_if_needed and
\* leaves its path as it was.
C10_OtherLabelsUntouched ==
    LET whitelist == {"passport_1", "passport_2", "personal_photo", "certificate"}
    IN /\ (rot_pc = "done" /\ rot_doc_class \notin whitelist) =>
              /\ ~rot_result.raised
              /\ rot_result.path = rot_image_path
              /\ gemini_calls = 0
              /\ rot_files = {}
       /\ \A i \in DOMAIN classified_images :
              classified_images[i].label \notin whitelist =>
                 /\ classified_images[i].path = PagePath(classified_images[i].filename)
                 /\ classified_images[i].path \notin rotate_calls

\* A bundle whose passport page was rotated while its identity card page,
\* processed after it, was skipped
C10_Witness ==
    /\ cls_pc = "done"
    /\ Len(classified_images) = 2
    /\ classified_images[1].label = "passport_1"
    /\ classified_images[1].path = RotatedPath(PagePath(1), 90)
    /\ classified_images[2].label = "emirates_id"
    /\ classified_images[2].path = PagePath(2)
    /\ rotate_calls = {PagePath(1)}

\* ------------------------------------------------- claims on SpecRotate
\* The judgment service failed, or its answer is not a decision object with
\* both decision keys
JudgmentFailedOrMalformed ==
    \/ gemini_behaviour.kind \in {"encode_fail", "raise", "not_json", "non_object"}
    \/ /\ gemini_behaviour.kind = "object"
       /\ ~({"rotation_needed", "rotation_angle"} \subseteq gemini_behaviour.keys)

\* C11: for a whitelisted label, when the judgment service fails (raises,
\* image cannot be encoded) or its response is malformed (not parseable, or
\* not a decision object of the expected shape), the call returns the
\* original image path and raises nothing to the caller.
C11_FailureReturnsOriginal ==
    (rot_pc = "done" /\ rot_doc_class \in ROTATABLE_CLASSES
        /\ JudgmentFailedOrMalformed) =>
        /\ ~rot_result.raised
        /\ rot_result.path = rot_image_path

\* C12: a rotated image is produced only with an angle of 90, 180 or 270; a
\* decision whose angle is 0, whose rotation_needed flag is false, or whose
\* angle lies outside {0, 90, 180, 270} leaves the image unchanged.
C12_OnlyRightAngles ==
    (rot_pc = "done" /\ ~rot_result.raised) =>
        /\ \A f \in rot_files : f.rotated \in {90, 180, 270}
        /\ rot_result.path # rot_image_path =>
               rot_result.path.rotated \in {90, 180, 270}
        /\ (/\ gemini_behaviour.kind = "object"
            /\ {"rotation_needed", "rotation_angle"} \subseteq gemini_behaviour.keys
            /\ \/ gemini_behaviour.rotation_angle = 0
               \/ ~gemini_behaviour.rotation_needed
               \/ gemini_behaviour.rotation_angle \notin {0, 90, 180, 270}) =>
               /\ rot_result.path = rot_image_path
               /\ rot_files = {}

\* ------------------------------------- claims on SpecSimpleOrientation
\* The image was read and every recognition call returned
AllRotationsRecognized == sto_readable /\ sto_ocr_fails = {}

\* C13: detect_text_orientation_simple recognizes text at the rotations 0,
\* 90, 180 and 270 and returns the one whose text is longest; when 0 ties
\* for the longest text, 0 is chosen; rotation_needed is reported exactly
\* when the chosen angle is not 0.
C13_LongestTextWins ==
    (sto_pc = "done" /\ AllRotationsRecognized) =>
        /\ sto_ocr_calls = 4
        /\ sto_result.rotation_angle \in OrientationSet
        /\ \A a \in OrientationSet :
               sto_text_len[sto_result.rotation_angle] >= sto_text_len[a]
        /\ (\A a \in OrientationSet : sto_text_len[0] >= sto_text_len[a]) =>
               sto_result.rotation_angle = 0
        /\ sto_result.rotation_needed <=> (sto_result.rotation_angle # 0)
        /\ sto_result.detected_text_length = sto_text_len[sto_result.rotation_angle]

\* The upright image ties with a rotation for the longest text
C13_Witness ==
    /\ sto_pc = "done"
    /\ AllRotationsRecognized
    /\ sto_text_len[0] = 2
    /\ sto_text_len[180] = 2
    /\ sto_text_len[90] = 1
    /\ sto_result.rotation_angle = 0
    /\ ~sto_result.rotation_needed

\* ------------------------------------------ claims on SpecMainClassify
\* C14: a failure of the classifier on a page drops that page and does not
\* stop the batch: the loop ends without raising and every other page of
\* the bundle is classified, in arrival order.
C14_ClassifierFailureDropsPage ==
    mic_pc = "done" =>
        /\ ~mic_raised
        /\ Len(mic_classified) = Len(mic_image_paths) - Cardinality(mic_failed)
        /\ \A i \in DOMAIN mic_classified : mic_classified[i].path \notin mic_failed
        /\ \A i, j \in DOMAIN mic_classified :
               i < j => mic_classified[i].path.file < mic_classified[j].path.file

C16_SaveFailureAbortsBundleOnly ==
    pipe_save_failed =>
        /\ pipe_processed[pipe_index] \notin pipe_saved
        /\ pipe_status[pipe_folder] # "saved"
        /\ (\E f \in DOMAIN pipe_status : f > pipe_folder /\ pipe_status[f] = "pending")
               => pipe_pc # "raised"

\* perform_ocr is through with the page: it was recognized and appended, or
\* its crop failed and it was skipped
PageSettled(page) ==
    \/ /\ page.recognized
       /\ \E k \in DOMAIN pipe_processed : pipe_processed[k] = page.file
    \/ page.crop_calls = 1 /\ ~page.cropped

C18_RunsNeverOverlap ==
    /\ Cardinality(RunningWorkers) <= 1
    /\ Cardinality({i \in DOMAIN gui_workers : gui_workers[i].state = "writing"}) <= 1

\* ---------------------------------------------- claims on SpecStructuring
\* The last page of processed_images that carries `label`
LastPageWith(label) ==
    CHOOSE i \in DOMAIN gst_processed :
        /\ gst_processed[i].label = label
        /\ \A j \in DOMAIN gst_processed : gst_processed[j].label = label => j <= i

\* The fields handed over for `label` ({} when the key is absent)
FieldsHanded(label) ==
    IF FieldsKey(label) \in DOMAIN gst_result.google_metadata
    THEN gst_result.google_metadata[FieldsKey(label)]
    ELSE EmptyDict

\* C19: for each role label, gemini_structuring hands over the text and the
\* fields of the last page, in processing order, that carries the role: a
\* later page overwrites both, so text and fields come from the same page.
C19_LastPageOfRoleWins ==
    gst_pc = "done" =>
        \A label \in RoleLabels :
            (\E i \in DOMAIN gst_processed : gst_processed[i].label = label) =>
                /\ gst_result.texts[TextArgument(label)] =
                       gst_processed[LastPageWith(label)].ocr_text
                /\ FieldsHanded(label) =
                       gst_processed[LastPageWith(label)].extracted_fields

\* ----------------------------------------------------- claims on SpecSave
\* The base names that have both an image and a record in the directory
SavedPairs ==
    {f.base : f \in {g \in DOMAIN sav_dir :
                        /\ g.ext = ".jpg"
                        /\ OutputFile(g.base, ".json") \in DOMAIN sav_dir}}

\* C20: after save_results for n processed pages the output directory holds
\* n distinct image+record pairs, one per page, none overwritten by another
\* page of the bundle, also when two pages carry the same label.
C20_OnePairPerPage ==
    sav_pc = "done" =>
        /\ Cardinality(SavedPairs) = Len(sav_processed)
        /\ sav_overwritten = {}
        /\ \A i \in DOMAIN sav_processed :
               \E base \in SavedPairs :
                   /\ sav_dir[OutputFile(base, ".jpg")] = sav_processed[i].file
                   /\ sav_dir[OutputFile(base, ".json")] = sav_processed[i].file


\* --------------------------------------------------- claims on file prefix
\* The tokens of the "Full Name" entry: none when it is absent or null
FullNameTokens ==
    IF sav_full_name.kind = "str" THEN split(sav_full_name.chars) ELSE <<>>

\* The prefix of the master file written by save_results
MasterPrefixes ==
    {f.base[1] : f \in {g \in DOMAIN sav_dir : g.ext = ".txt"}}

\* C21: save_results uses as file prefix the first blank-delimited token of
\* "Full Name", and "Unknown" when the entry is missing, null or holds no
\* token; deriving the prefix never raises.
C21_PrefixFromFullName ==
    /\ sav_pc # "raised"
    /\ sav_pc \in {"save", "done"} =>
           MasterPrefixes =
               {IF FullNameTokens # <<>> THEN FullNameTokens[1] ELSE Unknown}


\* --------------------------------------- claims on roles in SpecStructuring
\* The pages labelled "certificate", in processing order
CertificatePages == {i \in DOMAIN gst_processed : gst_processed[i].label = "certificate"}

\* C28: a page overwrites only data of pages with its own role: the text
\* and the fields of a "certificate" page reach the structuring service
\* unchanged even when an attestation-labelled page is processed after it.
C28_RolesKeptApart ==
    (gst_pc = "done" /\ CertificatePages # {}) =>
        /\ gst_result.texts["certificate_ocr"] =
               gst_processed[LastPageWith("certificate")].ocr_text
        /\ FieldsHanded("certificate") \in
               {EmptyDict} \cup {gst_processed[i].extracted_fields : i \in CertificatePages}


\* ------------------------------------------ claims on the returned numbers
\* C29: every non-null value returned by validate_attestation_numbers holds
\* only Western digits, has no leading zero and has a length within the
\* range of its key (5-15 for number 1, 6-7 for number 2), for every
\* candidate, also one written in localized digit glyphs; and the result
\* holds both keys.
C29_ReturnedNumbersWellFormed ==
    att_pc = "done" =>
        /\ DOMAIN validated = AttKeys
        /\ \A k \in AttKeys :
               validated[k] # NoneStr =>
                   /\ \A i \in DOMAIN validated[k] : validated[k][i] \in WesternDigits
                   /\ ~StartsWith(validated[k], <<"0">>)
                   /\ Len(validated[k]) >= (IF k = "Attestation Number 1" THEN 5 ELSE 6)
                   /\ Len(validated[k]) <= (IF k = "Attestation Number 1" THEN 15 ELSE 7)


\* -------------------------------------------------- claims on SpecExtract
\* The text holds a keyword of `type`, letters compared without case
HasKeyword(type) ==
    \E kw \in TypeKeywords(type) :
        \E i \in 1..(Len(doc_text) - Len(kw) + 1) :
            \A j \in 1..Len(kw) : LowerWord(doc_text[i + j - 1]) = kw[j]

\* C22: get_document_type returns exactly one of passport, emirates_id,
\* attestation_certificate, certificate, unknown, by keyword presence without
\* regard to case, in the priority passport > emirates_id >
\* attestation_certificate > certificate; unknown when no keyword is present.
C22_TypeByPriority ==
    (doc_pc = "done" /\ doc_call = "get_document_type") =>
        doc_document_type =
            IF HasKeyword("passport") THEN "passport"
            ELSE IF HasKeyword("emirates_id") THEN "emirates_id"
            ELSE IF HasKeyword("attestation_certificate") THEN "attestation_certificate"
            ELSE IF HasKeyword("certificate") THEN "certificate"
            ELSE "unknown"

\* A text with keywords of two types, in capitals, gets the type of higher
\* priority
C22_Witness ==
    /\ doc_pc = "done"
    /\ doc_call = "get_document_type"
    /\ doc_text = <<"degree", "Attested">>
    /\ doc_document_type = "attestation_certificate"

\* The dict an extractor alone returns for the text
ExtractorOf(type) ==
    CASE type = "passport" -> extract_specific_fields(doc_text)
      [] type = "emirates_id" -> extract_emirates_id_fields(doc_text)
      [] OTHER -> extract_certificate_fields(doc_text)

\* C23: for a text routed to "unknown", extract_fields_by_document_type
\* returns the union of the three extractors' dicts, applied in the order
\* passport/general, certificate, Emirates ID, the later value winning on a
\* shared key; for a text routed to a known type only that type's extractor
\* contributes.
C23_UnknownMergesAll ==
    (doc_pc = "done" /\ doc_call = "extract_fields_by_document_type") =>
        IF doc_document_type = "unknown"
        THEN LET general == extract_specific_fields(doc_text)
                 certificate == extract_certificate_fields(doc_text)
                 eid == extract_emirates_id_fields(doc_text)
             IN /\ DOMAIN doc_fields =
                       (DOMAIN general) \cup (DOMAIN certificate) \cup (DOMAIN eid)
                /\ \A k \in DOMAIN doc_fields :
                       doc_fields[k] =
                           IF k \in DOMAIN eid THEN eid[k]
                           ELSE IF k \in DOMAIN certificate THEN certificate[k]
                           ELSE general[k]
        ELSE doc_fields = ExtractorOf(doc_document_type)

\* An unknown text for which the general and the Emirates ID extractor find
\* different names: the Emirates ID extractor's name is returned
C23_Witness ==
    /\ doc_pc = "done"
    /\ doc_call = "extract_fields_by_document_type"
    /\ doc_document_type = "unknown"
    /\ "Full Name" \in DOMAIN extract_specific_fields(doc_text)
    /\ "Full Name" \in DOMAIN extract_emirates_id_fields(doc_text)
    /\ extract_specific_fields(doc_text)["Full Name"] #
           extract_emirates_id_fields(doc_text)["Full Name"]
    /\ doc_fields["Full Name"] = extract_emirates_id_fields(doc_text)["Full Name"]

\* C24: in every field set produced by field extraction each field holds the
\* value of the first candidate pattern that matches, a field with no match
\* is absent, and no field value is the empty string.
C24_FirstMatchNeverEmpty ==
    (doc_pc = "done" /\ doc_call \in {"extract_specific_fields",
                                      "extract_certificate_fields",
                                      "extract_fields_by_document_type"}) =>
        \A k \in DOMAIN doc_fields : doc_fields[k] # <<>>


\* -------------------------------------------------- claims on SpecService
\* Number of distinct words of the i-th listed service, and how many of them
\* the email holds
ServiceTotal(i) == Cardinality(WordSet(svc_services[i]))

ServiceShared(i) == Cardinality(WordSet(svc_services[i]) \cap WordSet(svc_email))

\* The listed services that share a word with the email
Sharing == {i \in DOMAIN svc_services : ServiceShared(i) > 0}

\* The call took the keyword path
KeywordPath == ~svc_api_key \/ svc_gemini.kind # "text"

\* C25: detect_service_from_email returns a service of the given list or
\* "Unknown Service"; on the keyword path it returns the listed service with
\* the greatest fraction of its words present in the email, the earliest
\* listed on a tie, and "Unknown Service" when no listed service shares a
\* word with the email.
C25_BestListedService ==
    svc_pc = "done" =>
        /\ svc_result \in {svc_services[i] : i \in DOMAIN svc_services}
                              \cup {UnknownService}
        /\ KeywordPath =>
               IF Sharing = {} THEN svc_result = UnknownService
               ELSE \E i \in Sharing :
                       /\ svc_result = svc_services[i]
                       /\ \A j \in Sharing :
                              /\ ServiceShared(j) * ServiceTotal(i) <=
                                     ServiceShared(i) * ServiceTotal(j)
                              /\ j < i => ServiceShared(j) * ServiceTotal(i) <
                                              ServiceShared(i) * ServiceTotal(j)


\* --------------------------------------------------- claims on SpecVision
\* C26: run_google_vision_ocr runs a second pass, on the preprocessed
\* variant, exactly when the first pass yields fewer than 100 characters or
\* the path suggests a passport, and then returns the pass with the strictly
\* longer text (the first pass on a tie); otherwise it performs exactly one
\* pass and returns its result.
C26_SecondPassRule ==
    vis_pc = "done" =>
        LET first == _perform_ocr(ImagePath, vis_text_len)
            variant == _perform_ocr(PreprocessedFile, vis_text_len)
        IN IF first.len < 100 \/ vis_passport_path
           THEN /\ vis_passes = <<ImagePath, PreprocessedFile>>
                /\ vis_result = IF variant.len > first.len THEN variant ELSE first
           ELSE /\ vis_passes = <<ImagePath>>
                /\ vis_result = first

\* C27: run_google_vision_ocr never deletes the image it was given: after
\* it returns the input file still exists, and the only file it removes is
\* the separate preprocessed variant, also when preprocessing could not read
\* the image.
C27_InputFileKept ==
    vis_pc = "done" =>
        /\ ImagePath \in vis_files
        /\ PreprocessedFile \notin vis_files


============================================================================
